---- MODULE Spec2Model ----
(***************************************************************************)
(* A model of surfclass: the GridSampler of lidar.py (point cloud to grid   *)
(* sampling), the KernelFeatureExtraction of kernelfeatureextraction.py and *)
(* the denoising tools of noise.py, the raster reading and writing of       *)
(* rasterio.py, the RandomForest of randomforest.py, the ClassCounter of    *)
(* vectorize.py, and stack_rasters with the classify command.               *)
(* Coordinates, angles and values are small integers; arrays are functions  *)
(* over 0-based index sets, as numpy indexes them.                          *)
(***************************************************************************)
EXTENDS Integers, Sequences, FiniteSets, TLC

(***************************************************************************)
(* Bounds of the model                                                      *)
(***************************************************************************)
\* Largest number of points in an input point cloud.
MaxPoints == 2
\* Largest side of the small input rasters of the kernel feature extraction.
MaxSide == 3
\* Largest number of columns of the class rasters given to the noise tools.
MaxCols == 3
\* Significant bits a float keeps in the model (53 in numpy's float64): a
\* number of more bits is rounded to the nearest that has them.
MantissaBits == 3

VARIABLES
    lidar_points,       \* the array given to GridSampler.__init__ (kept for reference)
    constructed,        \* "ok" | the exception __init__ raised
    points,             \* self._points
    bbox,               \* self._bbox
    resolution,         \* self._resolution
    grid_shape,         \* self._grid_shape
    prepared,           \* self._prepared
    cell_indexes,       \* self._cell_indexes
    use_min_scanangle,  \* self.use_min_scanangle
    call,               \* the last operation called on the sampler, with its arguments
    ret,                \* what the last make_grid returned or raised
    selected,           \* per cell, the input point the last make_grid took
    extractor,          \* a KernelFeatureExtraction: array, nodata, neighborhood, crop_mode, outputfeatures
    derived,            \* what the last run of calculate_derived_features gave
    written,            \* the rasters the last start wrote: name, origin, resolution, shape
    raster,             \* the array a the noise tools are called with
    noise_call,         \* the last call of a noise tool, with its arguments
    noise_ret,          \* what that call returned or raised
    reader,             \* a RasterReader: width, height, geotransform, nodata, the band's cells
    read_call,          \* the last read_raster call: window, bbox, masked
    read_ret,           \* what that call returned or raised
    out_array,          \* the array write_to_file is given
    classifier,         \* a RandomForest: num_features, model
    rf_call,            \* the last call on the RandomForest, with its arguments
    rf_ret,             \* what that call returned or raised, and whether the model predicted
    outlyr,             \* the output layer of extract count: its fields and its features
    count_call,         \* the last count run: classes, the polygons read, the layer as it was found
    count_ret,          \* "ok" or what ClassCounter.process raised
    rasterfiles,        \* the feature rasters given to stack_rasters, in the caller's order
    classify_call,      \* the last call: stack_rasters or genericmodel, with bbox and model
    stacked,            \* what stack_rasters returned or raised
    output,             \* the classification raster genericmodel wrote, or what it raised
    out_file            \* the nodata write_to_file was given and the file it wrote: nodata and cells, or what it raised

sampler_vars == <<lidar_points, constructed, points, bbox, resolution, grid_shape,
                  prepared, cell_indexes, use_min_scanangle, call, ret, selected>>
kernel_vars == <<extractor, derived, written>>
noise_vars == <<raster, noise_call, noise_ret>>
reader_vars == <<reader, read_call, read_ret>>
writer_vars == <<out_array, out_file>>
forest_vars == <<classifier, rf_call, rf_ret>>
counter_vars == <<outlyr, count_call, count_ret>>
classify_vars == <<rasterfiles, classify_call, stacked, output>>
other_vars == <<reader_vars, writer_vars, forest_vars, counter_vars, classify_vars>>
vars == <<sampler_vars, kernel_vars, noise_vars, other_vars>>

(***************************************************************************)
(* Integer helpers standing for numpy's float arithmetic on integral data   *)
(***************************************************************************)
Abs(x) == IF x < 0 THEN -x ELSE x

\* np.ceil(a / b) for b # 0
CeilDiv(a, b) ==
    LET n == IF b < 0 THEN -a ELSE a
        d == Abs(b)
    IN  IF n >= 0 THEN (n + d - 1) \div d ELSE -((-n) \div d)

\* (a / b).astype(int) for b # 0: truncation toward zero
TruncDiv(a, b) ==
    LET q == Abs(a) \div Abs(b)
    IN  IF (a < 0) = (b < 0) THEN q ELSE -q

\* The float nearest to an integer x >= 0 among the multiples of step and of
\* the larger steps: the nearest multiple of the first step at which x has no
\* more than MantissaBits bits, the even one of two equally near.
RECURSIVE RoundAt(_, _)
RoundAt(x, step) ==
    IF x < (2 ^ MantissaBits) * step
    THEN LET lo == x \div step
         IN  IF 2 * (x % step) < step THEN lo * step
             ELSE IF 2 * (x % step) > step THEN (lo + 1) * step
             ELSE IF lo % 2 = 0 THEN lo * step ELSE (lo + 1) * step
    ELSE RoundAt(x, 2 * step)

\* The result of a float64 addition or subtraction whose exact value is x
RoundFloat(x) == IF x < 0 THEN -RoundAt(-x, 1) ELSE RoundAt(x, 1)

\* s[::-1]
Reverse(s) == [i \in 1..Len(s) |-> s[Len(s) + 1 - i]]

\* The permutations of 1..n, as sequences
Permutations1(n) ==
    {p \in [1..n -> 1..n] : \A i, j \in 1..n : i # j => p[i] # p[j]}

(***************************************************************************)
(* Inputs the model draws from                                              *)
(***************************************************************************)
\* The sampling grid's bounding box (surfclass.Bbox): one row of two cells
\* at resolution 1, a single cell at resolution 2.
TheBbox == [xmin |-> 0, ymin |-> 0, xmax |-> 2, ymax |-> 1]

\* Resolutions given to the constructor, positive or not.
Resolutions == {-1, 0, 1, 2}

\* The points a cloud is made of, as (X, Y, ScanAngleRank): two kinds in the
\* first cell (on xmin and ymax), of negative angle and of smaller absolute
\* angle; one in the second cell; and three outside the bbox: on xmax, on ymin,
\* and left of xmin. A cloud may hold the same choice twice.
PointChoices ==
    {<<0, 1, -2>>, <<0, 1, 1>>, <<1, 1, 1>>, <<2, 1, 1>>, <<0, 0, 1>>, <<-1, 1, 1>>}

\* A point record as PDAL delivers it. Intensity holds the point's position in
\* the input array, so a grid of Intensity names the input point it took.
MkPoint(i, c) ==
    [X |-> c[1], Y |-> c[2], ScanAngleRank |-> c[3], Intensity |-> i, Z |-> 10 * i]

Clouds ==
    UNION {{[i \in 1..n |-> MkPoint(i, cs[i])] : cs \in [1..n -> PointChoices]} :
           n \in 0..MaxPoints}

\* A bbox whose width has more bits than a float keeps, and clouds of points
\* in it: on xmin, and the last float below xmax.
WideBbox == [xmin |-> 3, ymin |-> 0, xmax |-> 16, ymax |-> 1]
WideClouds ==
    UNION {{[i \in 1..n |-> MkPoint(i, cs[i])] :
                cs \in [1..n -> {<<3, 1, 1>>, <<14, 1, 1>>}]} :
           n \in 0..MaxPoints}

\* The clouds and the bbox given to the constructor
SamplerInputs == (Clouds \X {TheBbox}) \cup (WideClouds \X {WideBbox})

\* self._points.dtype.fields
Fields == {"X", "Y", "ScanAngleRank", "Intensity", "Z"}

\* The dtype of a field of the point records.
DtypeOf(name) == IF name = "Intensity" THEN "uint16" ELSE "float64"

\* A dimension argument: a string or not.
Str(name) == [isstr |-> TRUE, name |-> name]
NotStr(repr) == [isstr |-> FALSE, name |-> repr]

\* The make_grid calls made, as (dimension, nodata, masked): a field masked and
\* not, with a nodata that some point's Intensity equals and a negative one;
\* a float field with a negative nodata; a string that is no field; a
\* dimension that is no string.
GridCalls ==
    {<<Str("Intensity"), 1, TRUE>>, <<Str("Intensity"), 1, FALSE>>,
     <<Str("Intensity"), -1, TRUE>>, <<Str("Z"), -1, TRUE>>,
     <<Str("Bogus"), 1, TRUE>>, <<NotStr("7"), 1, TRUE>>}

(***************************************************************************)
(* GridSampler: pure parts                                                  *)
(***************************************************************************)
\* CanCast without the check: every nodata taken as castable.
CanCastAnything(nodata, datatype) == TRUE

\* np.can_cast(nodata, datatype) for a Python integer nodata
CanCast(nodata, datatype) ==
    IF datatype = "uint16" THEN 0 <= nodata /\ nodata <= 65535 ELSE TRUE

\* GridSampler._calc_grid_shape: np.int(np.ceil(d / resolution)); a division
\* by zero gives inf (or nan for 0/0), which np.int refuses.
CalcGridShape(bb, res) ==
    LET dx == Abs(RoundFloat(bb.xmax - bb.xmin))
        dy == Abs(RoundFloat(bb.ymax - bb.ymin))
    IN  IF res = 0
        THEN [error |-> IF dy = 0 THEN "ValueError" ELSE "OverflowError",
              rows |-> 0, cols |-> 0]
        ELSE [error |-> "ok", rows |-> CeilDiv(dy, res), cols |-> CeilDiv(dx, res)]

\* InBbox with ymin taken as inclusive.
InBboxYminInclusive(p, bb) ==
    /\ p.X >= bb.xmin /\ p.X < bb.xmax
    /\ p.Y >= bb.ymin /\ p.Y <= bb.ymax

\* The mask of GridSampler.crop_to_bbox
InBbox(p, bb) ==
    /\ p.X >= bb.xmin /\ p.X < bb.xmax
    /\ p.Y > bb.ymin /\ p.Y <= bb.ymax

\* a[mask]: the elements of a sequence that satisfy a test, in order
RECURSIVE SelectPoints(_, _)
SelectPoints(pts, bb) ==
    IF pts = <<>> THEN <<>>
    ELSE IF InBbox(Head(pts), bb)
         THEN <<Head(pts)>> \o SelectPoints(Tail(pts), bb)
         ELSE SelectPoints(Tail(pts), bb)

\* What np.argsort(abs_angle) can return: an index order in which the absolute
\* angles ascend. The default kind is not stable, so equal keys come in any order.
ArgsortAbsAngle(pts) ==
    {p \in Permutations1(Len(pts)) :
        \A i \in 1..(Len(pts) - 1) :
            Abs(pts[p[i]].ScanAngleRank) <= Abs(pts[p[i + 1]].ScanAngleRank)}

\* PreparedPoints without the [::-1]: the points in ascending absolute angle.
PreparedPointsAscending(pts, use_min) ==
    IF use_min
    THEN {[i \in 1..Len(pts) |-> pts[ix[i]]] : ix \in ArgsortAbsAngle(pts)}
    ELSE {pts}

\* The orders GridSampler._prepare can leave self._points in:
\* self._points[sorted_ix_abs_angle[::-1]] when use_min_scanangle, else as is.
PreparedPoints(pts, use_min) ==
    IF use_min
    THEN {[i \in 1..Len(pts) |-> pts[Reverse(ix)[i]]] : ix \in ArgsortAbsAngle(pts)}
    ELSE {pts}

\* GridSampler._calc_cell_indexes: (row_ixes, col_ixes)
CalcCellIndexes(pts, bb, res) ==
    [row |-> [i \in 1..Len(pts) |-> TruncDiv(RoundFloat(pts[i].Y - bb.ymax), -1 * res)],
     col |-> [i \in 1..Len(pts) |-> TruncDiv(RoundFloat(pts[i].X - bb.xmin), res)]]

\* The cells of an array of a shape
Cells(shape) == (0..(shape.rows - 1)) \X (0..(shape.cols - 1))

\* numpy's index check on one axis of length n, and its wrap of negative indexes
IndexOk(ix, n) == -n <= ix /\ ix < n
WrapIndex(ix, n) == IF ix < 0 THEN ix + n ELSE ix

\* Scatter on a grid pre-filled with zeros (np.zeros) instead of nodata.
ScatterOnZeros(shape, ci, values, nodata) ==
    [c \in Cells(shape) |->
        LET hits == {i \in 1..Len(values) :
                        /\ WrapIndex(ci.row[i], shape.rows) = c[1]
                        /\ WrapIndex(ci.col[i], shape.cols) = c[2]}
        IN  IF hits = {} THEN 0
            ELSE values[CHOOSE i \in hits : \A j \in hits : j <= i]]

\* out_grid[rows, cols] = values on a grid pre-filled with nodata: the
\* assignment runs through the index arrays in order, so the last one stays.
Scatter(shape, ci, values, nodata) ==
    [c \in Cells(shape) |->
        LET hits == {i \in 1..Len(values) :
                        /\ WrapIndex(ci.row[i], shape.rows) = c[1]
                        /\ WrapIndex(ci.col[i], shape.cols) = c[2]}
        IN  IF hits = {} THEN nodata
            ELSE values[CHOOSE i \in hits : \A j \in hits : j <= i]]

\* What make_grid returns or raises, after _prepare.
NoArray == <<>>
MakeGridResult(pts, shape, ci, dimension, nodata, masked) ==
    IF ~dimension.isstr
    THEN [kind |-> "TypeError", grid |-> NoArray, mask |-> NoArray]
    ELSE IF dimension.name \notin Fields
    THEN [kind |-> "ValueError", grid |-> NoArray, mask |-> NoArray]
    ELSE IF ~CanCast(nodata, DtypeOf(dimension.name))
    THEN [kind |-> "TypeError", grid |-> NoArray, mask |-> NoArray]
    ELSE IF shape.rows < 0 \/ shape.cols < 0
    THEN \* np.ones refuses negative dimensions
         [kind |-> "ValueError", grid |-> NoArray, mask |-> NoArray]
    ELSE IF \E i \in 1..Len(pts) :
                ~IndexOk(ci.row[i], shape.rows) \/ ~IndexOk(ci.col[i], shape.cols)
    THEN [kind |-> "IndexError", grid |-> NoArray, mask |-> NoArray]
    ELSE LET out_grid ==
                Scatter(shape, ci, [i \in 1..Len(pts) |-> pts[i][dimension.name]], nodata)
         IN  IF ~masked
             THEN [kind |-> "ndarray", grid |-> out_grid, mask |-> NoArray]
             ELSE [kind |-> "MaskedArray", grid |-> out_grid,
                   mask |-> [c \in Cells(shape) |-> out_grid[c] = nodata]]

\* Per cell, the position in the input array of the point a scatter takes,
\* 0 where it takes none; defined when a scatter of these indexes succeeds.
NoCall == [op |-> "none", dimension |-> [isstr |-> FALSE, name |-> ""], nodata |-> 0, masked |-> FALSE]
NoRet == [kind |-> "none", grid |-> NoArray, mask |-> NoArray]
NoSelection == [valid |-> FALSE, at |-> NoArray]
Selection(pts, shape, ci) ==
    IF \/ shape.rows < 0 \/ shape.cols < 0
       \/ \E i \in 1..Len(pts) :
             ~IndexOk(ci.row[i], shape.rows) \/ ~IndexOk(ci.col[i], shape.cols)
    THEN NoSelection
    ELSE [valid |-> TRUE,
          at |-> Scatter(shape, ci, [i \in 1..Len(pts) |-> pts[i].Intensity], 0)]

(***************************************************************************)
(* KernelFeatureExtraction: inputs the model draws from                     *)
(***************************************************************************)
\* A limit two sizes larger than the program's.
LargerAllowedNeighborhood == 13 + 2

\* Don't allow the user to create neighborhoods larger than 13x13
MAX_ALLOWED_NEIGHBORHOOD == 13

\* Shapes (rows, cols) of the input rasters: the small ones, and one that
\* holds the largest neighborhood allowed.
SmallShapes == (1..MaxSide) \X (1..MaxSide)
LargeShape == <<MAX_ALLOWED_NEIGHBORHOOD, MAX_ALLOWED_NEIGHBORHOOD>>

\* Neighborhood sizes given to the constructor: odd and even, negative, zero,
\* up to and beyond the largest allowed.
Neighborhoods == {-3, 0, 1, 2, 3, 5, 13, 15}

CropModes == {"crop", "reflect"}

\* The rasters read: the band's datatype, its nodata, and the values its cells
\* take. A raster of small values with nodata 0 or none; and a raster of a
\* large negative nodata that holds, beside nodata itself, a value one off
\* nodata and a value three off, as floats and as integers.
RasterKinds ==
    {[dtype |-> "float32", nodata |-> [declared |-> TRUE, value |-> 0],
      values |-> <<0, 1, 2>>],
     [dtype |-> "float32", nodata |-> [declared |-> FALSE, value |-> 0],
      values |-> <<0, 1, 2>>],
     [dtype |-> "float32", nodata |-> [declared |-> TRUE, value |-> -200000],
      values |-> <<-200000, -200001, -199997>>],
     [dtype |-> "int32", nodata |-> [declared |-> TRUE, value |-> -200000],
      values |-> <<-200000, -200001, -199997>>]}

\* rasterreader.nodata: a declared value, or None
RasterNodatas == {k.nodata : k \in RasterKinds}

\* KernelFeatureExtraction.SUPPORTED_FEATURES.keys()
SUPPORTED_FEATURES == {"mean", "var", "diffmean"}

\* The outputfeatures given to the constructor; one names a feature that is
\* not supported.
OutputFeatureLists == {<<"mean", "var", "diffmean">>, <<"diffmean">>, <<"mean", "median">>}

\* The cell values of an input raster: one of a few patterns over the values
\* of its kind.
Patterns == 0..1
ArrayOf(rows, cols, pat, kind) ==
    [rows |-> rows, cols |-> cols, dtype |-> kind.dtype,
     at |-> [c \in (0..(rows - 1)) \X (0..(cols - 1)) |->
                kind.values[((c[1] + 2 * c[2] + pat) % 3) + 1]]]

\* The geotransform of the rasters read: origin and pixel size, not rotated.
RasterGeotransform == [originX |-> 10, pixel_width |-> 2, originY |-> 50, pixel_height |-> -2]

\* The bbox given to the constructor, as the distance in srs units its
\* upper-left corner lies inside the raster's: none (the raster's own bbox, as
\* when no bbox is given), half a pixel, one pixel.
BboxShifts == {0, 1, 2}

\* The rasters read and the bbox they are read in, as (shape, pattern, kind,
\* bbox shift): the small rasters in every pattern, of every kind and with
\* every bbox; the large raster of small values in one pattern, read whole.
RasterChoices ==
    (SmallShapes \X Patterns \X RasterKinds \X BboxShifts) \cup
        {<<LargeShape, 0, kind, 0>> : kind \in {k \in RasterKinds : k.values[1] = 0}}

NoBbox == [xmin |-> 0, ymin |-> 0, xmax |-> 0, ymax |-> 0]
NoWindow == [col |-> 0, row |-> 0, cols |-> 0, rows |-> 0]
EmptyArray(dtype) == [rows |-> 0, cols |-> 0, dtype |-> dtype, at |-> <<>>]
NoWritten == <<>>

NoExtractor ==
    [constructed |-> "none",
     geotransform |-> RasterGeotransform, bbox |-> NoBbox, window |-> NoWindow,
     array |-> EmptyArray(""),
     nodata |-> [declared |-> FALSE, value |-> 0],
     neighborhood |-> 0, crop_mode |-> "", outputfeatures |-> <<>>]
NoDerived == [kind |-> "none", features |-> <<>>]

(***************************************************************************)
(* KernelFeatureExtraction: pure parts                                      *)
(***************************************************************************)
\* int(k / p + 0.001) and int(k / p + 0.5) for integers k and p # 0, |p| < 1000:
\* int() truncates toward zero.
PixelLow(k, p) ==
    LET n == IF p < 0 THEN -k ELSE k
        d == Abs(p)
    IN  IF n >= 0 THEN n \div d
        ELSE IF (-n) % d = 0 THEN 1 - ((-n) \div d)
        ELSE -((-n) \div d)
PixelHigh(k, p) ==
    LET n == IF p < 0 THEN -k ELSE k
        d == Abs(p)
    IN  IF 2 * n + d >= 0 THEN (2 * n + d) \div (2 * d)
        ELSE -((-(2 * n + d)) \div (2 * d))

\* RasterReader.bbox, from the geotransform and the raster's size
RasterBbox(gt, height, width) ==
    [xmin |-> gt.originX, ymin |-> gt.originY + gt.pixel_height * height,
     xmax |-> gt.originX + gt.pixel_width * width, ymax |-> gt.originY]

\* RasterReader.bbox_to_pixel_window(bbox): (column, row, numcolums, numrows)
BboxToPixelWindow(gt, bb) ==
    LET x1 == PixelLow(bb.xmin - gt.originX, gt.pixel_width)
        y1 == PixelLow(bb.ymax - gt.originY, gt.pixel_height)
        x2 == PixelHigh(bb.xmax - gt.originX, gt.pixel_width)
        y2 == PixelHigh(bb.ymin - gt.originY, gt.pixel_height)
    IN  [col |-> x1, row |-> y1, cols |-> x2 - x1, rows |-> y2 - y1]

\* The test of RasterReader.read_raster for a window outside the raster
WindowOutside(win, height, width) ==
    \/ win.col < 0 \/ width <= win.col
    \/ win.row < 0 \/ height <= win.row
    \/ win.cols < 0 \/ width < win.col + win.cols
    \/ win.rows < 0 \/ height < win.row + win.rows

\* RasterReader.read_raster(bbox=bbox, masked=False) of a raster: the cells of
\* the pixel window, an empty array for a window of no cell, or ValueError.
ReadRaster(band, gt, bb) ==
    LET win == BboxToPixelWindow(gt, bb)
    IN  IF WindowOutside(win, band.rows, band.cols)
        THEN [error |-> "ValueError", window |-> win, array |-> EmptyArray("")]
        ELSE IF win.cols <= 0 \/ win.rows <= 0
        THEN [error |-> "ok", window |-> win, array |-> EmptyArray("float64")]
        ELSE [error |-> "ok", window |-> win,
              array |-> [rows |-> win.rows, cols |-> win.cols, dtype |-> band.dtype,
                         at |-> [c \in (0..(win.rows - 1)) \X (0..(win.cols - 1)) |->
                                    band.at[<<c[1] + win.row, c[2] + win.col>>]]]]

\* The source index np.pad(mode="reflect") reads for index i of an axis of
\* length n: mirrored at both ends without repeating the edge value.
ReflectIndex(i, n) ==
    IF n = 1 THEN 0
    ELSE LET m == i % (2 * (n - 1))
         IN  IF m < n THEN m ELSE 2 * (n - 1) - m

\* Pad that pads before each axis only, not after.
PadBeforeOnly(matrix, pad_width) ==
    [rows |-> matrix.rows + pad_width,
     cols |-> matrix.cols + pad_width,
     at |-> [c \in (0..(matrix.rows + pad_width - 1)) \X
                   (0..(matrix.cols + pad_width - 1)) |->
                matrix.at[<<ReflectIndex(c[1] - pad_width, matrix.rows),
                            ReflectIndex(c[2] - pad_width, matrix.cols)>>]]]

\* np.pad(matrix, pad_width=pad_width, mode="reflect"), for pad_width >= 0
Pad(matrix, pad_width) ==
    [rows |-> matrix.rows + 2 * pad_width,
     cols |-> matrix.cols + 2 * pad_width,
     at |-> [c \in (0..(matrix.rows + 2 * pad_width - 1)) \X
                   (0..(matrix.cols + 2 * pad_width - 1)) |->
                matrix.at[<<ReflectIndex(c[1] - pad_width, matrix.rows),
                            ReflectIndex(c[2] - pad_width, matrix.cols)>>]]]

WindowsError(kind) == [kind |-> kind, rows |-> 0, cols |-> 0, depth |-> 0, at |-> <<>>]

\* KernelFeatureExtraction.matrix_as_windows(matrix, neighborhood, crop_mode):
\* the two asserts, the padding, the strided view and its reshape. np.pad
\* refuses a negative pad_width and as_strided a negative dimension.
MatrixAsWindows(matrix, neighborhood, crop_mode) ==
    IF neighborhood % 2 # 1 THEN WindowsError("AssertionError")
    ELSE IF ~(neighborhood <= MAX_ALLOWED_NEIGHBORHOOD) THEN WindowsError("AssertionError")
    ELSE LET pad_width == (neighborhood - 1) \div 2
         IN  IF crop_mode # "crop" /\ pad_width < 0 THEN WindowsError("ValueError")
             ELSE LET m    == IF crop_mode # "crop" THEN Pad(matrix, pad_width) ELSE matrix
                      rows == m.rows - neighborhood + 1
                      cols == m.cols - neighborhood + 1
                  IN  IF rows < 0 \/ cols < 0 \/ neighborhood < 0
                      THEN WindowsError("ValueError")
                      ELSE [kind |-> "ok", rows |-> rows, cols |-> cols,
                            depth |-> neighborhood * neighborhood,
                            at |-> [w \in (0..(rows - 1)) \X (0..(cols - 1)) \X
                                          (0..(neighborhood * neighborhood - 1)) |->
                                       m.at[<<w[1] + (w[3] \div neighborhood),
                                              w[2] + (w[3] % neighborhood)>>]]]

\* len(range(n)[slice(start, stop)]) for 0 <= start
SliceLen(start, stop, n) ==
    LET hi == IF stop < 0 THEN (IF stop + n < 0 THEN 0 ELSE stop + n)
              ELSE (IF stop > n THEN n ELSE stop)
        lo == IF start > n THEN n ELSE start
    IN  IF hi > lo THEN hi - lo ELSE 0

\* The test np.ma.masked_values(x, value) masks by: np.isclose with rtol=1e-5
\* and atol=1e-8 on floating data, equality on other data. For integral x and
\* value, |x - value| <= 1e-8 + 1e-5 * |value| is |x - value| <= |value| div 10^5.
MaskedValuesTest(x, value, dtype) ==
    IF dtype \in {"float32", "float64"}
    THEN Abs(x - value) <= Abs(value) \div 100000
    ELSE x = value

\* f[lo] + ... + f[hi], by halves
RECURSIVE SumRange(_, _, _)
SumRange(f, lo, hi) ==
    IF lo > hi THEN 0
    ELSE IF lo = hi THEN f[lo]
    ELSE LET mid == (lo + hi) \div 2
         IN  SumRange(f, lo, mid) + SumRange(f, mid + 1, hi)

\* A cell of a derived feature: masked, or the quotient num / den.
MaskedCell == [masked |-> TRUE, num |-> 0, den |-> 1]
ValueCell(num, den) == [masked |-> FALSE, num |-> num, den |-> den]

\* windows[w[1], w[2], lo..hi] as a sequence, by halves
RECURSIVE WindowEntries(_, _, _, _)
WindowEntries(windows, w, lo, hi) ==
    IF lo > hi THEN <<>>
    ELSE IF lo = hi THEN <<windows.at[<<w[1], w[2], lo>>]>>
    ELSE LET mid == (lo + hi) \div 2
         IN  WindowEntries(windows, w, lo, mid) \o WindowEntries(windows, w, mid + 1, hi)

\* The reductions over axis 2 of masked_values at one cell of windows, xs its
\* entries: count() of the entries masked_values left unmasked, their sum, and
\* the sum of the squares of count * x - sum (np.ma.var takes the mean of the
\* squared deviations from the mean).
WindowStats(xs, nodata, dtype) ==
    LET keep(k) == ~(nodata.declared /\ MaskedValuesTest(xs[k], nodata.value, dtype))
        cnt    == SumRange([k \in 1..Len(xs) |-> IF keep(k) THEN 1 ELSE 0], 1, Len(xs))
        sum    == SumRange([k \in 1..Len(xs) |-> IF keep(k) THEN xs[k] ELSE 0], 1, Len(xs))
        Sq(c, s) == SumRange([k \in 1..Len(xs) |->
                                IF keep(k) THEN (c * xs[k] - s) * (c * xs[k] - s) ELSE 0],
                             1, Len(xs))
    IN  [cnt |-> cnt, sum |-> sum, sq |-> Sq(cnt, sum)]

\* One cell of a feature: np.ma.masked_array(data, mask=mask[crop_indices]),
\* which keeps the mask of data (a window with no entry left) beside the new one.
FeatureCell(feat_name, st, centre, centre_mask) ==
    IF centre_mask \/ st.cnt = 0 THEN MaskedCell
    ELSE IF feat_name = "mean" THEN ValueCell(st.sum, st.cnt)
    ELSE IF feat_name = "diffmean" THEN ValueCell(st.cnt * centre - st.sum, st.cnt)
    ELSE ValueCell(st.sq, st.cnt * st.cnt * st.cnt)

\* list(KernelFeatureExtraction.calculate_derived_features()): the features
\* yielded, each a masked array of the windows' 2D shape whose mask is the
\* nodata mask of the array cut by crop_indices; or the exception raised.
CalculateDerivedFeaturesResult(self) ==
    LET windows == MatrixAsWindows(self.array, self.neighborhood, self.crop_mode)
    IN  IF windows.kind # "ok" THEN [kind |-> windows.kind, features |-> <<>>]
        ELSE LET edge_size ==
                     IF self.array.rows # windows.rows \/ self.array.cols # windows.cols
                     THEN TruncDiv(self.neighborhood - 1, 2)
                     ELSE 0
                 mask_rows == SliceLen(edge_size, self.array.rows - edge_size, self.array.rows)
                 mask_cols == SliceLen(edge_size, self.array.cols - edge_size, self.array.cols)
                 stats == [w \in (0..(windows.rows - 1)) \X (0..(windows.cols - 1)) |->
                              WindowStats(WindowEntries(windows, w, 0, windows.depth - 1),
                                          self.nodata, self.array.dtype)]
                 centre(w) == self.array.at[<<w[1] + edge_size, w[2] + edge_size>>]
             IN  IF self.outputfeatures = <<>> THEN [kind |-> "features", features |-> <<>>]
                 ELSE IF ~self.nodata.declared
                 THEN \* mask = False, and False[tuple(crop_indices)] is no indexing
                      [kind |-> "TypeError", features |-> <<>>]
                 ELSE IF mask_rows # windows.rows \/ mask_cols # windows.cols
                 THEN \* np.ma.masked_array: mask and data not compatible
                      [kind |-> "MaskError", features |-> <<>>]
                 ELSE [kind |-> "features",
                       features |-> [i \in 1..Len(self.outputfeatures) |->
                           [name |-> self.outputfeatures[i],
                            rows |-> windows.rows, cols |-> windows.cols,
                            at |-> [w \in (0..(windows.rows - 1)) \X (0..(windows.cols - 1)) |->
                                      FeatureCell(self.outputfeatures[i], stats[w], centre(w),
                                                  centre(w) = self.nodata.value)]]]]

(***************************************************************************)
(* RasterReader: inputs the model draws from, and read_raster               *)
(***************************************************************************)
\* The rasters opened, as (height, width): their cells hold their own
\* position, row * width + col, and 0, the first cell, is nodata.
ReaderShapes == {<<2, 3>>, <<3, 2>>, <<1, 1>>}
MkReader(height, width) ==
    [height |-> height, width |-> width, geotransform |-> RasterGeotransform,
     nodata |-> [declared |-> TRUE, value |-> 0],
     band |-> [rows |-> height, cols |-> width, dtype |-> "float32",
               at |-> [c \in (0..(height - 1)) \X (0..(width - 1)) |-> c[1] * width + c[2]]]]

\* The window argument: None, or (column, row, numcolums, numrows)
NoneWindow == [given |-> FALSE, col |-> 0, row |-> 0, cols |-> 0, rows |-> 0]
WindowArgs == [given : {TRUE}, col : -1..2, row : -1..1, cols : -1..3, rows : {-1, 0, 1, 3}]

\* The bbox argument: None, or a Bbox whose edges lie on the raster's pixel
\* edges or half a pixel off them, up to one pixel outside the raster.
NoneBbox == [given |-> FALSE, xmin |-> 0, ymin |-> 0, xmax |-> 0, ymax |-> 0]
BboxArgs(self) ==
    LET whole == RasterBbox(self.geotransform, self.height, self.width)
    IN  {[given |-> TRUE, xmin |-> whole.xmin + l, ymin |-> whole.ymin - b,
          xmax |-> whole.xmax + r, ymax |-> whole.ymax - t] :
            l \in {-2, -1, 0, 2}, r \in {-2, 0, 1}, t \in {-1, 0}, b \in {0, 2}}

NoReader == [height |-> 0, width |-> 0, geotransform |-> RasterGeotransform,
             nodata |-> [declared |-> FALSE, value |-> 0], band |-> EmptyArray("")]
NoReadCall == [op |-> "none", window |-> NoneWindow, bbox |-> NoneBbox, masked |-> FALSE]
NoReadRet == [kind |-> "none", window |-> NoWindow, array |-> EmptyArray(""), mask |-> <<>>]
IdleReader == reader = NoReader /\ read_call = NoReadCall /\ read_ret = NoReadRet

\* RasterReader.read_raster(window, bbox, masked): ValueError, or the cells of
\* the pixel window read, as a plain or a masked array; an array of shape
\* (0, 0) for a window of no cell.
ReadRasterResult(self, window, bbox_, masked) ==
    IF bbox_.given /\ window.given
    THEN [kind |-> "ValueError", window |-> NoWindow, array |-> EmptyArray(""), mask |-> <<>>]
    ELSE LET src_offset ==
                 IF window.given
                 THEN [col |-> window.col, row |-> window.row,
                       cols |-> window.cols, rows |-> window.rows]
                 ELSE IF bbox_.given THEN BboxToPixelWindow(self.geotransform, bbox_)
                 ELSE [col |-> 0, row |-> 0, cols |-> self.width, rows |-> self.height]
             kind == IF masked THEN "MaskedArray" ELSE "ndarray"
         IN  IF WindowOutside(src_offset, self.height, self.width)
             THEN [kind |-> "ValueError", window |-> src_offset,
                   array |-> EmptyArray(""), mask |-> <<>>]
             ELSE IF src_offset.cols <= 0 \/ src_offset.rows <= 0
             THEN [kind |-> kind, window |-> src_offset,
                   array |-> EmptyArray("float64"), mask |-> <<>>]
             ELSE LET cells == (0..(src_offset.rows - 1)) \X (0..(src_offset.cols - 1))
                      src_array == [c \in cells |->
                          self.band.at[<<c[1] + src_offset.row, c[2] + src_offset.col>>]]
                  IN  [kind |-> kind, window |-> src_offset,
                       array |-> [rows |-> src_offset.rows, cols |-> src_offset.cols,
                                  dtype |-> self.band.dtype, at |-> src_array],
                       mask |-> IF masked
                                THEN [c \in cells |->
                                         self.nodata.declared /\
                                         MaskedValuesTest(src_array[c], self.nodata.value,
                                                          self.band.dtype)]
                                ELSE <<>>]

(***************************************************************************)
(* Noise tools: inputs the model draws from                                 *)
(***************************************************************************)
\* A 2D array: an np.ma.MaskedArray or a plain ndarray (whose mask is all
\* False here), its dtype, its data and its mask by cell (row, col).
MkArray(type, dtype, rows, cols, data, mask) ==
    [type |-> type, dtype |-> dtype, rows |-> rows, cols |-> cols,
     data |-> data, mask |-> mask]

CellsOf(a) == (0..(a.rows - 1)) \X (0..(a.cols - 1))

\* A MaskedArray of cells given as records [data, mask]
MaskedOf(rows, cols, f) ==
    MkArray("MaskedArray", "uint8", rows, cols,
            [c \in (0..(rows - 1)) \X (0..(cols - 1)) |-> f[c].data],
            [c \in (0..(rows - 1)) \X (0..(cols - 1)) |-> f[c].mask])

\* The same data as a plain ndarray
PlainOf(a) ==
    MkArray("ndarray", a.dtype, a.rows, a.cols, a.data, [c \in CellsOf(a) |-> FALSE])

\* The raster's nodata value, which np.ma.masked_values leaves as the data of
\* the masked cells (read_masked of the tests, RasterReader.read_raster).
FillValue == 9

Unmasked(v) == [data |-> v, mask |-> FALSE]
Masked(v) == [data |-> v, mask |-> TRUE]

\* Class rasters of two rows, as np.ma.masked_values gives them: every cell of
\* class 1 or 2, or nodata and masked.
NoiseRows == 2
ClassRasters ==
    UNION {{MaskedOf(NoiseRows, cols, f) :
                f \in [(0..(NoiseRows - 1)) \X (0..(cols - 1)) ->
                          {Unmasked(1), Unmasked(2), Masked(FillValue)}]} :
           cols \in 1..MaxCols}

\* The dense ones among them as plain ndarrays.
PlainRasters == {PlainOf(a) : a \in {b \in ClassRasters : \A c \in CellsOf(b) : ~b.mask[c]}}

\* Rasters of one row of three cells with the classes at both ends of uint8.
WideRasters ==
    {MaskedOf(1, 3, f) :
        f \in [{0} \X (0..2) -> {Unmasked(0), Unmasked(255), Masked(FillValue)}]}

\* Rasters of one row of three cells whose mask hides cells of class 1, as
\* MaskedRasterReader.read_2d masks the cells outside a polygon.
HiddenRasters ==
    {MaskedOf(1, 3, f) : f \in [{0} \X (0..2) -> {Unmasked(1), Unmasked(2), Masked(1)}]}

\* A raster that is not uint8 (masked_data.astype("int64") of the tests).
Int64Rasters ==
    {MkArray("MaskedArray", "int64", 1, 2,
             (<<0, 0>> :> 1) @@ (<<0, 1>> :> FillValue),
             (<<0, 0>> :> FALSE) @@ (<<0, 1>> :> TRUE))}

NoiseRasters ==
    ClassRasters \cup PlainRasters \cup WideRasters \cup HiddenRasters \cup Int64Rasters

\* structure: np.ones((3, 3)), 8-connectedness, and the cross of the tests,
\* 4-connectedness; by the offsets (rows, cols) from its centre it selects.
Structures == {"ones", "cross"}
Selects(structure, rows, cols) ==
    /\ Abs(rows) <= 1
    /\ Abs(cols) <= 1
    /\ structure = "ones" \/ Abs(rows) + Abs(cols) <= 1

NoRaster == MkArray("none", "", 0, 0, <<>>, <<>>)
NoNoiseCall == [op |-> "none", structure |-> "", iterations |-> 0,
                class_number |-> 0, min_cluster_size |-> 0]
NoNoiseRet == [kind |-> "none", array |-> NoRaster]

\* The noise tools of a behaviour that calls none.
IdleNoise == raster = NoRaster /\ noise_call = NoNoiseCall /\ noise_ret = NoNoiseRet

(***************************************************************************)
(* Noise tools: the pure parts of noise.py                                  *)
(***************************************************************************)
\* np.ma.is_masked(a): a MaskedArray with at least one masked cell
IsMasked(a) == a.type = "MaskedArray" /\ \E c \in CellsOf(a) : a.mask[c]

\* The cells of a whose value is class_number (a == class_number: a masked
\* cell compares False).
ClassBin(a, class_number) == {c \in CellsOf(a) : ~a.mask[c] /\ a.data[c] = class_number}

\* The cells of a set that structure connects to a cell
Connected(cells, c, structure) ==
    {n \in cells : Selects(structure, n[1] - c[1], n[2] - c[2])}

\* nd.measurements.label: the connected cluster of a cell among the cells of
\* class_bin, grown from the cells seen so far.
RECURSIVE Cluster(_, _, _)
Cluster(class_bin, seen, structure) ==
    LET grown == seen \cup UNION {Connected(class_bin, c, structure) : c \in seen}
    IN  IF grown = seen THEN seen ELSE Cluster(class_bin, grown, structure)

\* np.bincount(labeled_array.ravel()) at the label of a cell: the size of its
\* cluster, and for a cell of label 0 the number of cells outside class_bin.
Bincount(a, class_bin, c, structure) ==
    IF c \in class_bin
    THEN Cardinality(Cluster(class_bin, {c}, structure))
    ELSE Cardinality(CellsOf(a) \ class_bin)

\* np.in1d(labeled_array, noise_idx): the cells whose label has a count below
\* min_cluster_size
NoiseCells(a, class_bin, min_cluster_size, structure) ==
    {c \in CellsOf(a) : Bincount(a, class_bin, c, structure) < min_cluster_size}

\* A bool array of the shape of a, True at the cells of a set
BoolArray(a, cells) ==
    MkArray("ndarray", "bool", a.rows, a.cols,
            [c \in CellsOf(a) |-> c \in cells], [c \in CellsOf(a) |-> FALSE])

\* sieve_mask(a, class_number, min_cluster_size, structure)
SieveMaskResult(a, class_number, min_cluster_size, structure) ==
    BoolArray(a, NoiseCells(a, ClassBin(a, class_number), min_cluster_size, structure))

\* np.unique(a.compressed())
ClassValues(a) == {a.data[c] : c \in {d \in CellsOf(a) : ~a.mask[d]}}

\* a[mask] = np.ma.masked: the cells of the mask are masked, the data stays
SetMasked(a, cells) ==
    [a EXCEPT !.mask = [c \in CellsOf(a) |-> a.mask[c] \/ c \in cells]]

\* sieve(a, min_cluster_size, structure): for every class value the cells
\* that sieve_mask marks in a.data are masked in a.
SieveResult(a, min_cluster_size, structure) ==
    IF a.type # "MaskedArray" THEN [kind |-> "TypeError", array |-> a]
    ELSE [kind |-> "None",
          array |-> SetMasked(a,
                        UNION {NoiseCells(a, ClassBin(PlainOf(a), v),
                                          min_cluster_size, structure) :
                               v \in ClassValues(a)})]

\* The largest element of a nonempty set of numbers
SetMax(S) == CHOOSE x \in S : \A y \in S : y <= x

\* The histogram of the values of the cells under the structure (the bins of
\* the values that do not occur are 0 and never the largest).
Histogram(data, under) ==
    [v \in {data[n] : n \in under} |-> Cardinality({n \in under : data[n] = v})]

\* argmax(axis=-1) of a histogram: the value of the largest bin, the smallest
\* such value first.
Argmax(hist) ==
    CHOOSE v \in DOMAIN hist :
        \A w \in DOMAIN hist : hist[w] < hist[v] \/ (hist[w] = hist[v] /\ v <= w)

\* rank.windowed_histogram(a, structure).argmax(axis=-1): at every cell, over
\* the cells of the image that the structure centred there selects.
WindowedArgmax(data, cells, structure) ==
    [c \in cells |-> Argmax(Histogram(data, Connected(cells, c, structure)) @@ <<>>)]

\* for _ in range(iterations): a = windowed_histogram(a, structure).argmax()
RECURSIVE Vote(_, _, _, _)
Vote(data, cells, iterations, structure) ==
    IF iterations = 0 THEN data
    ELSE Vote(WindowedArgmax(data, cells, structure) @@ <<>>, cells,
              iterations - 1, structure)

\* How nodata = np.max(a) + 1 and the two uses of it come out, as a record of
\* the value a.filled(nodata) writes and the value masked_values compares
\* with. The maximum of an all-masked array is the masked constant, whose
\* data is 0. Past 255 the sum either widens to 256, which filled wraps to 0
\* and no uint8 cell equals, or wraps to 0 itself, by the numpy in use.
Nodatas(a) ==
    LET unmasked == ClassValues(a)
    IN  IF unmasked = {} THEN {[filled |-> 0, masked_value |-> 0]}
        ELSE IF SetMax(unmasked) + 1 <= 255
        THEN {[filled |-> SetMax(unmasked) + 1, masked_value |-> SetMax(unmasked) + 1]}
        ELSE {[filled |-> 0, masked_value |-> 256], [filled |-> 0, masked_value |-> 0]}

\* a.filled(nodata)
Filled(a, nodata) == [c \in CellsOf(a) |-> IF a.mask[c] THEN nodata ELSE a.data[c]]

\* np.ma.masked_values(a, nodata) of uint8 data of the shape of a
MaskedValues(a, data, nodata) ==
    [kind |-> "MaskedArray",
     array |-> MkArray("MaskedArray", "uint8", a.rows, a.cols, data,
                       [c \in CellsOf(a) |-> data[c] = nodata])]

\* majority_vote(a, iterations, structure): the results it can give
MajorityVoteResults(a, iterations, structure) ==
    IF a.dtype # "uint8" THEN {[kind |-> "AssertionError", array |-> NoRaster]}
    ELSE IF IsMasked(a)
    THEN {MaskedValues(a, Vote(Filled(a, nodata.filled) @@ <<>>, CellsOf(a),
                               iterations, structure),
                       nodata.masked_value) :
          nodata \in Nodatas(a)}
    ELSE {[kind |-> "ndarray",
           array |-> MkArray("ndarray", "uint8", a.rows, a.cols,
                             Vote(a.data, CellsOf(a), iterations, structure),
                             [c \in CellsOf(a) |-> FALSE])]}

\* Squared Euclidean distance of two cells
Dist2(c, n) == (c[1] - n[1]) * (c[1] - n[1]) + (c[2] - n[2]) * (c[2] - n[2])

\* A transform that names any unmasked cell for a cell, not a closest one.
AnyUnmaskedCell(a, c) ==
    LET background == {n \in CellsOf(a) : ~a.mask[n]}
    IN  IF background = {} THEN {<<a.rows - 1, a.cols - 1>>} ELSE background

\* The cells nd.distance_transform_edt(a.mask, return_indices=True) can name
\* for a cell: the cell itself where the mask is False, else an unmasked cell
\* at the least distance, whichever of several; with every cell masked the
\* indices stay -1, which index the last cell.
NearestCells(a, c) ==
    LET background == {n \in CellsOf(a) : ~a.mask[n]}
    IN  IF background = {} THEN {<<a.rows - 1, a.cols - 1>>}
        ELSE {n \in background : \A m \in background : Dist2(c, n) <= Dist2(c, m)}

\* The arrays a.data[tuple(indexes)] can be: cell by cell the data of one of
\* the cells the transform can name, built over the cells in turn.
RECURSIVE FilledOver(_, _)
FilledOver(a, cells) ==
    IF cells = {} THEN {<<>>}
    ELSE LET c == CHOOSE x \in cells : TRUE
         IN  {f @@ (c :> v) : f \in FilledOver(a, cells \ {c}),
                              v \in {a.data[n] : n \in NearestCells(a, c)}}

\* fill_nearest_neighbor(a): the results it can give
FillNearestNeighborResults(a) ==
    IF a.type # "MaskedArray" THEN {[kind |-> "TypeError", array |-> NoRaster]}
    ELSE IF ~IsMasked(a) THEN {[kind |-> "MaskedArray", array |-> a]}
    ELSE {[kind |-> "ndarray",
           array |-> MkArray("ndarray", a.dtype, a.rows, a.cols, filled,
                             [c \in CellsOf(a) |-> FALSE])] :
          filled \in FilledOver(a, CellsOf(a))}

\* denoised.filled() if isinstance(denoised, np.ma.MaskedArray) else denoised
Dense(r) ==
    IF r.kind = "MaskedArray"
    THEN [kind |-> "ndarray",
          array |-> MkArray("ndarray", r.array.dtype, r.array.rows, r.array.cols,
                            r.array.data, [c \in CellsOf(r.array) |-> FALSE])]
    ELSE r

\* denoise(a): majority_vote(a, 2), fill_nearest_neighbor, majority_vote(a, 1)
\* and filled(); an exception of a step is the outcome of the call.
DenoiseResults(a) ==
    UNION {IF voted.kind \notin {"ndarray", "MaskedArray"} THEN {voted}
           ELSE UNION {IF filled.kind \notin {"ndarray", "MaskedArray"} THEN {filled}
                       ELSE {Dense(denoised) :
                                denoised \in MajorityVoteResults(filled.array, 1, "ones")} :
                       filled \in FillNearestNeighborResults(voted.array)} :
           voted \in MajorityVoteResults(a, 2, "ones")}

(***************************************************************************)
(* write_to_file and find_nodata_value                                      *)
(***************************************************************************)
\* np.iinfo(t) of the integer dtypes written; for float32 np.finfo(t), whose
\* limits of 3.4e38 are held as a number beyond every value of the model.
FloatLimit == 2000000000
Tinfo(dtype) ==
    IF dtype = "uint8" THEN [min |-> 0, max |-> 255]
    ELSE IF dtype = "int16" THEN [min |-> -32768, max |-> 32767]
    ELSE [min |-> -FloatLimit, max |-> FloatLimit]

\* The values the cells of an array of a dtype take
CellValues(dtype) ==
    IF dtype = "uint8" THEN {0, 1, 255}
    ELSE IF dtype = "int16" THEN {-32768, -10000, -100, 0, 5}
    ELSE {-1000000000, -99, 0, 5}

\* The arrays written: masked arrays of one row and two cells, of every dtype,
\* with every mask.
OutCells == {<<0, 0>>, <<0, 1>>}
OutArrays ==
    UNION {{MkArray("MaskedArray", dtype, 1, 2, data, mask) :
                data \in [OutCells -> CellValues(dtype)], mask \in [OutCells -> BOOLEAN]} :
           dtype \in {"uint8", "int16", "float32"}}

\* The nodata argument: None, or a number
NodataArgs == {[declared |-> FALSE, value |-> 0], [declared |-> TRUE, value |-> 7]}

nines == <<-99, -999, -9999, -99999, -999999, -9999999, -99999999, -999999999>>

\* find_nodata_value(a): next(x for x in nines if tinfo.min < x < amin), which
\* raises StopIteration when no x passes; amin is the least unmasked value,
\* and the comparison with the masked constant of an array with none is false.
\* Every x is non-zero, so `if n` holds and the code below it is never run.
FindNodataValue(a) ==
    LET tinfo == Tinfo(a.dtype)
        unmasked == {a.data[c] : c \in {d \in CellsOf(a) : ~a.mask[d]}}
        passes == {i \in 1..Len(nines) :
                      /\ tinfo.min < nines[i]
                      /\ unmasked # {}
                      /\ \A v \in unmasked : nines[i] < v}
    IN  IF passes = {} THEN [kind |-> "StopIteration", value |-> 0]
        ELSE [kind |-> "ok", value |-> nines[CHOOSE i \in passes : \A j \in passes : i <= j]]

NoOutArray == NoRaster
NoOutFile == [kind |-> "none", given |-> [declared |-> FALSE, value |-> 0],
              nodata |-> [declared |-> FALSE, value |-> 0], at |-> <<>>]
IdleWriter == out_array = NoOutArray /\ out_file = NoOutFile

\* write_to_file(filename, array, origin, resolution, srs, nodata): the nodata
\* value is looked for when none is given and the array is masked; the file
\* holds the array with its masked cells filled with nodata.
WriteToFileResult(array, nodata) ==
    LET found == IF ~nodata.declared /\ IsMasked(array)
                 THEN FindNodataValue(array)
                 ELSE [kind |-> "ok", value |-> nodata.value]
        set == nodata.declared \/ IsMasked(array)
    IN  IF found.kind # "ok" THEN [NoOutFile EXCEPT !.kind = found.kind, !.given = nodata]
        ELSE [kind |-> "ok", given |-> nodata,
              nodata |-> [declared |-> set, value |-> IF set THEN found.value ELSE 0],
              at |-> [c \in CellsOf(array) |->
                         IF set /\ array.mask[c] THEN found.value ELSE array.data[c]]]

(***************************************************************************)
(* RandomForest                                                             *)
(***************************************************************************)
\* Largest number of features of a model or columns of a matrix X
MaxFeatures == 3

\* A trained sklearn RandomForestClassifier of n_features_ features; None
NoneModel == [kind |-> "None", n_features_ |-> 0, n_jobs |-> 0]
Forest(n) == [kind |-> "RandomForestClassifier", n_features_ |-> n, n_jobs |-> 0]

\* The model argument of RandomForest(): None, a trained classifier, the path
\* of a pickled classifier, of a pickled object of another class or of no
\* file, or an object that is neither.
ModelArgs ==
    {[type |-> "None", holds |-> NoneModel], [type |-> "object", holds |-> NoneModel],
     [type |-> "str", holds |-> NoneModel],
     [type |-> "str", holds |-> [NoneModel EXCEPT !.kind = "object"]]} \cup
    {[type |-> t, holds |-> Forest(n)] :
        t \in {"str", "RandomForestClassifier"}, n \in 1..MaxFeatures}

\* The matrices X given: X.ndim and, for a 2D X, its number of columns
Matrices == {[ndim |-> 1, rows |-> 2, cols |-> 0]} \cup
            {[ndim |-> 2, rows |-> 2, cols |-> f] : f \in 1..MaxFeatures}

\* RandomForest.validate_model(model)
ValidateModelAnyCount(self, model) ==
    IF model.kind # "RandomForestClassifier" THEN NoneModel ELSE model
ValidateModel(self, model) ==
    IF model.kind # "RandomForestClassifier" THEN NoneModel
    ELSE IF ~(model.n_features_ = self.num_features) THEN NoneModel
    ELSE model

\* RandomForest.load_model(model): a path is unpickled (None when the file
\* cannot be opened) and validated, a classifier is validated.
LoadModel(self, model) ==
    IF model.type = "None" THEN NoneModel
    ELSE IF model.type = "str"
    THEN IF model.holds.kind = "None" THEN NoneModel
         ELSE ValidateModel(self, model.holds)
    ELSE IF model.type = "RandomForestClassifier" THEN ValidateModel(self, model.holds)
    ELSE NoneModel

\* RandomForest.classify(X, prob, processors): the exception raised or the
\* vector returned, whether model.predict_proba was called, and the n_jobs
\* the model is left with.
ClassifyResult(self, X, processors) ==
    LET model == ValidateModel(self, self.model)
        n_jobs == IF processors.isint /\ model.kind # "None"
                  THEN processors.value ELSE self.model.n_jobs
        Raised(e) == [kind |-> e, predicted |-> FALSE, len |-> 0, n_jobs |-> n_jobs]
    IN  IF self.model.kind = "None"
        THEN [kind |-> "AssertionError", predicted |-> FALSE, len |-> 0,
              n_jobs |-> self.model.n_jobs]
        ELSE IF processors.isint /\ model.kind = "None"
        THEN [kind |-> "AttributeError", predicted |-> FALSE, len |-> 0,
              n_jobs |-> self.model.n_jobs]
        ELSE IF X.ndim # 2 THEN Raised("AssertionError")
        ELSE IF X.cols # self.num_features THEN Raised("AssertionError")
        ELSE IF model.kind = "None" THEN Raised("AttributeError")
        ELSE [kind |-> "ndarray", predicted |-> TRUE, len |-> X.rows, n_jobs |-> n_jobs]

NoClassifier == [num_features |-> 0, model |-> NoneModel]
NoRfCall == [op |-> "none", X |-> [ndim |-> 0, rows |-> 0, cols |-> 0]]
NoRfRet == [kind |-> "none", predicted |-> FALSE, len |-> 0]
IdleForest == classifier = NoClassifier /\ rf_call = NoRfCall /\ rf_ret = NoRfRet

(***************************************************************************)
(* ClassCounter                                                             *)
(***************************************************************************)
\* Field names: f"class_{x}", the total field, and a field of the input layer
ClassField(x) == <<"class_", x>>
TotalField == <<"total_count", 0>>
IdField == <<"id", 0>>

\* A field of a feature that was not set
Unset == -1

\* The class ranges reported, as (first, last)
ClassRanges == {<<1, 2>>, <<0, 1>>}

\* The polygons read from the input layer, each as the values of the raster
\* cells inside it (masked_data.compressed()): up to two polygons.
Insides == {<<>>, <<1>>, <<1, 2, 5>>, <<5, 5>>}
FeatureLists == {<<>>} \cup {<<a>> : a \in Insides} \cup (Insides \X Insides)

\* The position of a field in a layer definition, -1 when it has none
GetFieldIndex(fields, name) ==
    IF \E i \in 1..Len(fields) : fields[i] = name
    THEN (CHOOSE i \in 1..Len(fields) : fields[i] = name) - 1
    ELSE -1

\* The layer definition with a field created unless it is there
WithField(fields, name) ==
    IF GetFieldIndex(fields, name) < 0 THEN Append(fields, name) ELSE fields

\* ClassCounter._add_fields on a layer of these fields, for classes
\* first..last: the fields the layer has afterwards, and _total_field_index,
\* which is set only where the total field is created (None otherwise).
RECURSIVE WithClassFields(_, _, _)
WithClassFields(fields, first, last) ==
    IF first > last THEN fields
    ELSE WithClassFields(WithField(fields, ClassField(first)), first + 1, last)
AddFields(fields, first, last) ==
    LET withclasses == WithClassFields(fields, first, last)
        created == GetFieldIndex(withclasses, TotalField) < 0
        after == WithField(withclasses, TotalField)
    IN  [fields |-> after,
         total_field_index |->
             [isnone |-> ~created, value |-> GetFieldIndex(after, TotalField)]]

\* The number of cells of value x in a polygon
RECURSIVE CountOf(_, _)
CountOf(inside, x) ==
    IF inside = <<>> THEN 0
    ELSE (IF Head(inside) = x THEN 1 ELSE 0) + CountOf(Tail(inside), x)

\* The feature process writes for a polygon: the count of each reported class
\* in its class field, and in the total field the sum of the counts of every
\* value found inside.
OutFeature(fields, first, last, inside) ==
    [i \in 1..Len(fields) |->
        IF \E x \in first..last : fields[i] = ClassField(x)
        THEN CountOf(inside, CHOOSE x \in first..last : fields[i] = ClassField(x))
        ELSE IF fields[i] = TotalField THEN Len(inside)
        ELSE Unset]

\* ClassCounter.process(): the fields are added; then a feature is written
\* per polygon, which fails at the first polygon with TypeError when
\* _total_field_index is None.
ProcessResult(layer, first, last, features) ==
    LET added == AddFields(layer.fields, first, last)
    IN  IF features # <<>> /\ added.total_field_index.isnone
        THEN [kind |-> "TypeError",
              layer |-> [fields |-> added.fields, features |-> layer.features]]
        ELSE [kind |-> "ok",
              layer |-> [fields |-> added.fields,
                         features |-> layer.features \o
                             [i \in 1..Len(features) |->
                                 OutFeature(added.fields, first, last, features[i])]]]

NoLayer == [fields |-> <<>>, features |-> <<>>]
NoCountCall == [op |-> "none", classrange |-> <<0, 0>>, features |-> <<>>, found |-> NoLayer]
IdleCounter == outlyr = NoLayer /\ count_call = NoCountCall /\ count_ret = "none"

(***************************************************************************)
(* stack_rasters and the classify command                                   *)
(***************************************************************************)
\* The geotransforms of the feature rasters: one at large coordinates, as
\* UTM coordinates are; the same moved by half a pixel and by a pixel in x;
\* one of another resolution; and two at small coordinates half a pixel apart.
StackGeotransforms ==
    {[originX |-> x, pixel_width |-> 2, originY |-> 600000, pixel_height |-> -2] :
        x \in {200000, 200001, 200002}} \cup
    {[originX |-> 200000, pixel_width |-> 4, originY |-> 600000, pixel_height |-> -4],
     RasterGeotransform, [RasterGeotransform EXCEPT !.originX = @ + 1]}

\* The cell values of a feature raster: one of two patterns over the values
\* of its kind, which put nodata and the other values at different cells.
StackBand(rows, cols, pat, kind) ==
    [rows |-> rows, cols |-> cols, dtype |-> kind.dtype,
     at |-> [c \in (0..(rows - 1)) \X (0..(cols - 1)) |->
                kind.values[(((1 + pat) * c[1] + 2 * c[2] + pat) % 3) + 1]]]

\* The feature rasters: of two shapes, of every kind and pattern
StackShapes == {<<2, 2>>, <<2, 3>>}
StackRasters ==
    {[height |-> shape[1], width |-> shape[2], geotransform |-> gt, nodata |-> kind.nodata,
      band |-> StackBand(shape[1], shape[2], pat, kind)] :
        shape \in StackShapes, gt \in StackGeotransforms, kind \in RasterKinds,
        pat \in Patterns}

\* The lists of raster paths given: one raster, or two of which the first
\* has one of the two geotransforms the others are variations of.
RasterLists ==
    {<<a>> : a \in StackRasters} \cup
    ({a \in StackRasters : a.geotransform.originX \in {200000, RasterGeotransform.originX}
                            /\ a.geotransform.pixel_width = 2}
        \X StackRasters)

\* The bbox given: None, or the first raster's bbox less its first column
StackBboxes(raster_paths) ==
    LET whole == RasterBbox(raster_paths[1].geotransform, raster_paths[1].height,
                            raster_paths[1].width)
    IN  {NoneBbox, [given |-> TRUE, xmin |-> whole.xmin + raster_paths[1].geotransform.pixel_width,
                    ymin |-> whole.ymin, xmax |-> whole.xmax, ymax |-> whole.ymax]}

\* RasterReader.window_geotransform(window)
WindowGeotransform(gt, window) ==
    [originX |-> gt.originX + window.col * gt.pixel_width, pixel_width |-> gt.pixel_width,
     originY |-> gt.originY + window.row * gt.pixel_height, pixel_height |-> gt.pixel_height]

\* np.allclose(a, b) of two geotransforms: |a - b| <= 1e-8 + 1e-5 * |b| in
\* every entry, which for integers is |a - b| <= |b| div 10^5.
AllClose(a, b) ==
    /\ Abs(a.originX - b.originX) <= Abs(b.originX) \div 100000
    /\ Abs(a.pixel_width - b.pixel_width) <= Abs(b.pixel_width) \div 100000
    /\ Abs(a.originY - b.originY) <= Abs(b.originY) \div 100000
    /\ Abs(a.pixel_height - b.pixel_height) <= Abs(b.pixel_height) \div 100000

\* The cell of position k of an array of cols columns read in row-major order
CellAt(k, cols) == <<k \div cols, k % cols>>

\* The position of the j-th TRUE counted from the end
NthTrueFromEnd(mask, j) ==
    CHOOSE k \in 1..Len(mask) :
        mask[k] /\ Cardinality({m \in (k + 1)..Len(mask) : mask[m]}) = j - 1

\* The position of the j-th TRUE of a boolean sequence: np.where(mask)[0][j - 1]
NthTrue(mask, j) ==
    CHOOSE k \in 1..Len(mask) :
        mask[k] /\ Cardinality({m \in 1..(k - 1) : mask[m]}) = j - 1

NoStacked == [kind |-> "none", X |-> <<>>, mask |-> <<>>,
              geotransform |-> RasterGeotransform, shape |-> <<0, 0>>]

\* stack_rasters once every raster is read: the assert on the window
\* geotransforms and the refusals of the reads in the order of the loop, then
\* the arrays are stacked, which needs them of one shape, and the rows of the
\* cells masked in no band are taken.
StackRead(raster_paths, geotransform, read) ==
    LET n == Len(raster_paths)
        Fails(i) == ~AllClose(geotransform[1], geotransform[i]) \/ read[i].kind = "ValueError"
        Raised(e) == [NoStacked EXCEPT !.kind = e]
    IN  IF \E i \in 1..n : Fails(i)
        THEN LET i == CHOOSE j \in 1..n : Fails(j) /\ \A m \in 1..(j - 1) : ~Fails(m)
             IN  IF ~AllClose(geotransform[1], geotransform[i]) THEN Raised("AssertionError")
                 ELSE Raised("ValueError")
        ELSE IF \E i \in 1..n : \/ read[i].array.rows # read[1].array.rows
                                  \/ read[i].array.cols # read[1].array.cols
        THEN Raised("ValueError")
        ELSE LET rows == read[n].array.rows
                 cols == read[n].array.cols
                 masked(i, c) ==
                     /\ raster_paths[i].nodata.declared
                     /\ MaskedValuesTest(read[i].array.at[c], raster_paths[i].nodata.value,
                                         read[i].array.dtype)
                 logical_or_mask == [k \in 1..(rows * cols) |->
                     ~\E i \in 1..n : masked(i, CellAt(k - 1, cols))] @@ <<>>
                 count == Cardinality({k \in 1..(rows * cols) : logical_or_mask[k]})
             IN  [kind |-> "ok",
                  X |-> [j \in 1..count |->
                            [i \in 1..n |->
                                read[i].array.at[CellAt(NthTrue(logical_or_mask, j) - 1, cols)]]],
                  mask |-> logical_or_mask,
                  geotransform |-> geotransform[n],
                  shape |-> <<rows, cols>>]

\* stack_rasters with the window of every raster: its window geotransform
\* and its read_raster(window=window, masked=False)
StackWindows(raster_paths, window) ==
    StackRead(raster_paths,
              [i \in 1..Len(raster_paths) |->
                  WindowGeotransform(raster_paths[i].geotransform, window[i])],
              [i \in 1..Len(raster_paths) |->
                  ReadRasterResult(raster_paths[i],
                                   [given |-> TRUE, col |-> window[i].col,
                                    row |-> window[i].row, cols |-> window[i].cols,
                                    rows |-> window[i].rows],
                                   NoneBbox, FALSE)])

\* stack_rasters(raster_paths, bbox): per raster the window of the bbox, the
\* first raster's bbox when none is given.
StackRastersResult(raster_paths, bbox_) ==
    LET bb == IF bbox_.given THEN bbox_
              ELSE RasterBbox(raster_paths[1].geotransform, raster_paths[1].height,
                              raster_paths[1].width)
    IN  StackWindows(raster_paths,
                     [i \in 1..Len(raster_paths) |->
                         BboxToPixelWindow(raster_paths[i].geotransform, bb)])

\* The trained models given to the classify command: the features they take
\* and their classes. The label a model gives a row is, here, the class at
\* the position of the sum of the row's values among its classes.
Models == {[n_features_ |-> 1, classes_ |-> <<1, 2>>],
           [n_features_ |-> 2, classes_ |-> <<1, 2>>],
           [n_features_ |-> 2, classes_ |-> <<0, 5, 200>>]}
RECURSIVE SumSeq(_)
SumSeq(xs) == IF xs = <<>> THEN 0 ELSE Head(xs) + SumSeq(Tail(xs))
Predict(model, row) == model.classes_[(SumSeq(row) % Len(model.classes_)) + 1]

\* np.int8(x) of an integer array entry: the low 8 bits, signed
Int8(x) == ((x + 128) % 256) - 128

NoOutput == [kind |-> "none", shape |-> <<0, 0>>, at |-> <<>>, nodata |-> 0]

\* genericmodel after stack_rasters returned: RandomForest(len(features),
\* model).classify(X), and the labels, as int8, put at the valid positions of
\* an array of zeros, which is written with nodata 0.
GenericModelOutput(raster_paths, model, st) ==
    IF st.kind # "ok" THEN [NoOutput EXCEPT !.kind = st.kind]
    ELSE LET self == [num_features |-> Len(raster_paths)]
             classifying == [num_features |-> Len(raster_paths),
                             model |-> LoadModel(self, [type |-> "str",
                                                        holds |-> Forest(model.n_features_)])]
             r == ClassifyResult(classifying,
                                 [ndim |-> 2, rows |-> Len(st.X), cols |-> Len(raster_paths)],
                                 [isint |-> FALSE, value |-> 0])
             class_prediction == [j \in 1..Len(st.X) |-> Predict(model, st.X[j])]
             place(k) == Cardinality({m \in 1..k : st.mask[m]})
         IN  IF r.kind # "ndarray" THEN [NoOutput EXCEPT !.kind = r.kind]
             ELSE IF st.X = <<>>
             THEN \* predict_proba refuses an array of no sample
                  [NoOutput EXCEPT !.kind = "ValueError"]
             ELSE [kind |-> "ok", shape |-> st.shape, nodata |-> 0,
                   at |-> [c \in (0..(st.shape[1] - 1)) \X (0..(st.shape[2] - 1)) |->
                              LET k == c[1] * st.shape[2] + c[2] + 1
                              IN  IF st.mask[k] THEN Int8(class_prediction[place(k)]) ELSE 0]]

NoClassifyCall == [op |-> "none", bbox |-> NoneBbox,
                   model |-> [n_features_ |-> 0, classes_ |-> <<>>]]
IdleClassify ==
    /\ rasterfiles = <<>> /\ classify_call = NoClassifyCall
    /\ stacked = NoStacked /\ output = NoOutput

\* The components below, in a behaviour that has none of them.
IdleOther == IdleReader /\ IdleWriter /\ IdleForest /\ IdleCounter /\ IdleClassify

(***************************************************************************)
(* GridSampler: construction and operations                                 *)
(***************************************************************************)
\* GridSampler.__init__(lidar_points, bbox, resolution)
InitSampler ==
    \E input \in SamplerInputs, res \in Resolutions :
        LET pts == input[1]
            shape == CalcGridShape(input[2], res)
        IN  /\ lidar_points = pts
            /\ points = pts
            /\ bbox = input[2]
            /\ resolution = res
            /\ constructed = shape.error
            /\ grid_shape = [rows |-> shape.rows, cols |-> shape.cols]
            /\ prepared = FALSE
            /\ cell_indexes = [row |-> <<>>, col |-> <<>>]
            /\ use_min_scanangle = TRUE
            /\ call = NoCall
            /\ ret = NoRet
            /\ selected = NoSelection
            /\ extractor = NoExtractor
            /\ derived = NoDerived
            /\ written = NoWritten
            /\ IdleNoise
            /\ IdleOther

\* GridSampler.crop_to_bbox()
CropToBbox ==
    /\ constructed = "ok"
    /\ points' = SelectPoints(points, bbox)
    /\ prepared' = FALSE
    /\ call' = [NoCall EXCEPT !.op = "crop_to_bbox"]
    /\ ret' = NoRet
    /\ selected' = NoSelection
    /\ UNCHANGED <<lidar_points, constructed, bbox, resolution, grid_shape,
                   cell_indexes, use_min_scanangle>>
    /\ UNCHANGED <<kernel_vars, noise_vars, other_vars>>

\* sampler.use_min_scanangle = b, the public attribute
SetUseMinScanangle(b) ==
    /\ constructed = "ok"
    /\ b # use_min_scanangle
    /\ use_min_scanangle' = b
    /\ call' = [NoCall EXCEPT !.op = "use_min_scanangle"]
    /\ ret' = NoRet
    /\ selected' = NoSelection
    /\ UNCHANGED <<lidar_points, constructed, points, bbox, resolution, grid_shape,
                   prepared, cell_indexes>>
    /\ UNCHANGED <<kernel_vars, noise_vars, other_vars>>

\* GridSampler.make_grid(dimension, nodata, masked): _prepare unless prepared
\* (nothing ever sets self._prepared), then the checks and the scatter.
MakeGrid(dimension, nodata, masked) ==
    /\ constructed = "ok"
    /\ \E pts \in (IF prepared THEN {points} ELSE PreparedPoints(points, use_min_scanangle)) :
        LET ci == IF prepared THEN cell_indexes ELSE CalcCellIndexes(pts, bbox, resolution)
            r  == MakeGridResult(pts, grid_shape, ci, dimension, nodata, masked)
        IN  /\ points' = pts
            /\ cell_indexes' = ci
            /\ ret' = r
            /\ selected' = IF r.kind \in {"ndarray", "MaskedArray"}
                           THEN Selection(pts, grid_shape, ci)
                           ELSE selected
    /\ call' = [op |-> "make_grid", dimension |-> dimension, nodata |-> nodata, masked |-> masked]
    /\ UNCHANGED <<lidar_points, constructed, bbox, resolution, grid_shape,
                   prepared, use_min_scanangle>>
    /\ UNCHANGED <<kernel_vars, noise_vars, other_vars>>

NextSampler ==
    \/ CropToBbox
    \/ \E b \in BOOLEAN : SetUseMinScanangle(b)
    \/ \E c \in GridCalls : MakeGrid(c[1], c[2], c[3])

Spec == InitSampler /\ [][NextSampler]_vars

(***************************************************************************)
(* KernelFeatureExtraction: construction and operations                     *)
(***************************************************************************)
\* The sampler of a behaviour that has none.
IdleSampler ==
    /\ lidar_points = <<>> /\ points = <<>> /\ constructed = "none"
    /\ bbox = TheBbox /\ resolution = 0 /\ grid_shape = [rows |-> 0, cols |-> 0]
    /\ prepared = FALSE /\ cell_indexes = [row |-> <<>>, col |-> <<>>]
    /\ use_min_scanangle = TRUE /\ call = NoCall /\ ret = NoRet
    /\ selected = NoSelection

\* KernelFeatureExtraction.__init__: the raster is read within the bbox, the
\* arguments are stored as given, and last the feature keys are validated.
InitKernel ==
    /\ IdleSampler
    /\ \E choice \in RasterChoices,
          n \in Neighborhoods, mode \in CropModes, feats \in OutputFeatureLists :
          LET kind   == choice[3]
              shift  == choice[4]
              band == ArrayOf(choice[1][1], choice[1][2], choice[2], kind)
              gt     == RasterGeotransform
              whole  == RasterBbox(gt, band.rows, band.cols)
              bb     == [whole EXCEPT !.xmin = @ + shift, !.ymax = @ - shift]
              read   == ReadRaster(band, gt, bb)
          IN  /\ extractor =
                    [constructed |->
                        IF read.error # "ok" THEN read.error
                        ELSE IF \A i \in 1..Len(feats) : feats[i] \in SUPPORTED_FEATURES
                        THEN "ok" ELSE "AssertionError",
                     geotransform |-> gt, bbox |-> bb, window |-> read.window,
                     array |-> read.array, nodata |-> kind.nodata,
                     neighborhood |-> n, crop_mode |-> mode, outputfeatures |-> feats]
    /\ derived = NoDerived
    /\ written = NoWritten
    /\ IdleNoise
    /\ IdleOther

\* list(extractor.calculate_derived_features())
CalculateDerivedFeatures ==
    /\ extractor.constructed = "ok"
    /\ derived' = CalculateDerivedFeaturesResult(extractor)
    /\ UNCHANGED <<extractor, written>>
    /\ UNCHANGED <<sampler_vars, noise_vars, other_vars>>

\* extractor.crop_mode = mode, as the tests do between two runs
SetCropMode(mode) ==
    /\ extractor.constructed = "ok"
    /\ mode # extractor.crop_mode
    /\ extractor' = [extractor EXCEPT !.crop_mode = mode]
    /\ derived' = NoDerived
    /\ written' = NoWritten
    /\ UNCHANGED <<sampler_vars, noise_vars, other_vars>>

\* KernelFeatureExtraction.start(): the origin from crop_mode and the bbox,
\* then every derived feature written with it.
Start ==
    /\ extractor.constructed = "ok"
    /\ LET resolution_ == extractor.geotransform.pixel_width
           crop_amount == TruncDiv(extractor.neighborhood - 1, 2) * resolution_
           origin == IF extractor.crop_mode = "crop"
                     THEN <<extractor.bbox.xmin + crop_amount,
                            extractor.bbox.ymax - crop_amount>>
                     ELSE <<extractor.bbox.xmin, extractor.bbox.ymax>>
           r == CalculateDerivedFeaturesResult(extractor)
       IN  /\ derived' = r
           /\ written' = [i \in 1..Len(r.features) |->
                             [name |-> r.features[i].name, origin |-> origin,
                              resolution |-> resolution_,
                              rows |-> r.features[i].rows, cols |-> r.features[i].cols]]
    /\ UNCHANGED extractor
    /\ UNCHANGED <<sampler_vars, noise_vars, other_vars>>

NextKernel ==
    \/ CalculateDerivedFeatures
    \/ Start
    \/ \E mode \in CropModes : SetCropMode(mode)

SpecKernel == InitKernel /\ [][NextKernel]_vars

(***************************************************************************)
(* Noise tools: the calls                                                   *)
(***************************************************************************)
\* The arguments the calls are made with
Iterations == {1, 2}
MinClusterSizes == {1, 2, 3}
ClassNumbers == {1, 2}

\* The extractor of a behaviour that has none.
IdleKernel == extractor = NoExtractor /\ derived = NoDerived /\ written = NoWritten

\* a = the raster read, before any call. A call is made with a when no call
\* is held; its record and result are held until the caller goes on.
InitNoise ==
    /\ IdleSampler
    /\ IdleKernel
    /\ IdleOther
    /\ raster \in NoiseRasters
    /\ noise_call = NoNoiseCall
    /\ noise_ret = NoNoiseRet

\* denoise(a)
Denoise ==
    /\ noise_call = NoNoiseCall
    /\ noise_call' = [NoNoiseCall EXCEPT !.op = "denoise"]
    /\ noise_ret' \in DenoiseResults(raster)
    /\ UNCHANGED raster
    /\ UNCHANGED <<sampler_vars, kernel_vars, other_vars>>

\* majority_vote(a, iterations, structure)
MajorityVote(iterations, structure) ==
    /\ noise_call = NoNoiseCall
    /\ noise_call' = [NoNoiseCall EXCEPT !.op = "majority_vote",
                                         !.iterations = iterations,
                                         !.structure = structure]
    /\ noise_ret' \in MajorityVoteResults(raster, iterations, structure)
    /\ UNCHANGED raster
    /\ UNCHANGED <<sampler_vars, kernel_vars, other_vars>>

\* fill_nearest_neighbor(a)
FillNearestNeighbor ==
    /\ noise_call = NoNoiseCall
    /\ noise_call' = [NoNoiseCall EXCEPT !.op = "fill_nearest_neighbor"]
    /\ noise_ret' \in FillNearestNeighborResults(raster)
    /\ UNCHANGED raster
    /\ UNCHANGED <<sampler_vars, kernel_vars, other_vars>>

\* sieve(a, min_cluster_size, structure), which changes a
Sieve(min_cluster_size, structure) ==
    /\ noise_call = NoNoiseCall
    /\ LET r == SieveResult(raster, min_cluster_size, structure)
       IN  /\ raster' = r.array
           /\ noise_ret' = [kind |-> r.kind, array |-> NoRaster]
    /\ noise_call' = [NoNoiseCall EXCEPT !.op = "sieve",
                                         !.min_cluster_size = min_cluster_size,
                                         !.structure = structure]
    /\ UNCHANGED <<sampler_vars, kernel_vars, other_vars>>

\* sieve_mask(a, class_number, min_cluster_size, structure)
SieveMask(class_number, min_cluster_size, structure) ==
    /\ noise_call = NoNoiseCall
    /\ noise_call' = [NoNoiseCall EXCEPT !.op = "sieve_mask",
                                         !.class_number = class_number,
                                         !.min_cluster_size = min_cluster_size,
                                         !.structure = structure]
    /\ noise_ret' = [kind |-> "ndarray",
                     array |-> SieveMaskResult(raster, class_number,
                                               min_cluster_size, structure)]
    /\ UNCHANGED raster
    /\ UNCHANGED <<sampler_vars, kernel_vars, other_vars>>

\* a = denoise(a): the caller goes on with the array denoise returned, as
\* when a denoised raster is denoised again.
Reassign ==
    /\ noise_call.op = "denoise"
    /\ noise_ret.kind = "ndarray"
    /\ raster' = noise_ret.array
    /\ noise_call' = NoNoiseCall
    /\ noise_ret' = NoNoiseRet
    /\ UNCHANGED <<sampler_vars, kernel_vars, other_vars>>

NextNoise ==
    \/ Denoise
    \/ \E i \in Iterations, st \in Structures : MajorityVote(i, st)
    \/ FillNearestNeighbor
    \/ \E k \in MinClusterSizes, st \in Structures : Sieve(k, st)
    \/ \E c \in ClassNumbers, k \in MinClusterSizes, st \in Structures : SieveMask(c, k, st)
    \/ Reassign

SpecNoise == InitNoise /\ [][NextNoise]_vars

(***************************************************************************)
(* RasterReader: the calls                                                  *)
(***************************************************************************)
\* RasterReader(raster_path)
InitReader ==
    /\ IdleSampler
    /\ IdleKernel
    /\ IdleNoise
    /\ IdleWriter
    /\ IdleForest
    /\ IdleCounter
    /\ IdleClassify
    /\ \E shape \in ReaderShapes : reader = MkReader(shape[1], shape[2])
    /\ read_call = NoReadCall
    /\ read_ret = NoReadRet

\* reader.read_raster(window=window, bbox=bbox, masked=masked)
ReadRasterCall(window, bbox_, masked) ==
    /\ read_call' = [op |-> "read_raster", window |-> window, bbox |-> bbox_,
                     masked |-> masked]
    /\ read_ret' = ReadRasterResult(reader, window, bbox_, masked)
    /\ UNCHANGED reader
    /\ UNCHANGED <<sampler_vars, kernel_vars, noise_vars, writer_vars, forest_vars,
                   counter_vars, classify_vars>>

\* The calls made: with neither window nor bbox, with a window, with a bbox,
\* and with both, the window then one that starts at the first cell.
NextReader ==
    /\ read_call = NoReadCall
    /\ \E masked \in BOOLEAN :
          \/ ReadRasterCall(NoneWindow, NoneBbox, masked)
          \/ \E window \in WindowArgs : ReadRasterCall(window, NoneBbox, masked)
          \/ \E bbox_ \in BboxArgs(reader) : ReadRasterCall(NoneWindow, bbox_, masked)
          \/ \E window \in {w \in WindowArgs : w.col = 0 /\ w.row = 0},
                bbox_ \in BboxArgs(reader) : ReadRasterCall(window, bbox_, masked)

SpecReader == InitReader /\ [][NextReader]_vars

(***************************************************************************)
(* write_to_file: the calls                                                 *)
(***************************************************************************)
InitWriter ==
    /\ IdleSampler
    /\ IdleKernel
    /\ IdleNoise
    /\ IdleReader
    /\ IdleForest
    /\ IdleCounter
    /\ IdleClassify
    /\ out_array \in OutArrays
    /\ out_file = NoOutFile

\* write_to_file(filename, out_array, origin, resolution, srs, nodata)
WriteToFile(nodata) ==
    /\ out_file' = WriteToFileResult(out_array, nodata)
    /\ UNCHANGED out_array
    /\ UNCHANGED <<sampler_vars, kernel_vars, noise_vars, reader_vars, forest_vars,
                   counter_vars, classify_vars>>

NextWriter == \E nodata \in NodataArgs : WriteToFile(nodata)

SpecWriter == InitWriter /\ [][NextWriter]_vars

(***************************************************************************)
(* RandomForest: construction and calls                                     *)
(***************************************************************************)
\* RandomForest(num_features, model=model)
InitForest ==
    /\ IdleSampler
    /\ IdleKernel
    /\ IdleNoise
    /\ IdleReader
    /\ IdleWriter
    /\ IdleCounter
    /\ IdleClassify
    /\ \E num_features \in 1..MaxFeatures, model \in ModelArgs :
          classifier = [num_features |-> num_features,
                        model |-> LoadModel([num_features |-> num_features], model)]
    /\ rf_call = NoRfCall
    /\ rf_ret = NoRfRet

\* classifier.train(X, y) with y of one label per row of X: refused when a
\* model is held, else X is checked and the model fitted to it is kept.
Train(X) ==
    /\ rf_call' = [op |-> "train", X |-> X]
    /\ IF classifier.model.kind # "None"
       THEN rf_ret' = [NoRfRet EXCEPT !.kind = "None"] /\ UNCHANGED classifier
       ELSE IF X.ndim # 2 \/ X.cols # classifier.num_features
       THEN rf_ret' = [NoRfRet EXCEPT !.kind = "AssertionError"] /\ UNCHANGED classifier
       ELSE /\ rf_ret' = [NoRfRet EXCEPT !.kind = "RandomForestClassifier"]
            /\ classifier' = [classifier EXCEPT !.model = Forest(X.cols)]
    /\ UNCHANGED <<sampler_vars, kernel_vars, noise_vars, reader_vars, writer_vars,
                   counter_vars, classify_vars>>

\* classifier.classify(X, processors=processors)
Classify(X, processors) ==
    /\ LET r == ClassifyResult(classifier, X, processors)
       IN  /\ rf_ret' = [kind |-> r.kind, predicted |-> r.predicted, len |-> r.len]
           /\ classifier' = [classifier EXCEPT !.model.n_jobs = r.n_jobs]
    /\ rf_call' = [op |-> "classify", X |-> X]
    /\ UNCHANGED <<sampler_vars, kernel_vars, noise_vars, reader_vars, writer_vars,
                   counter_vars, classify_vars>>

\* classifier.model = model: the attribute is changed by the caller, which
\* classify provides for by validating the model again.
SetModel(model) ==
    /\ classifier' = [classifier EXCEPT !.model = model]
    /\ rf_call' = NoRfCall
    /\ rf_ret' = NoRfRet
    /\ UNCHANGED <<sampler_vars, kernel_vars, noise_vars, reader_vars, writer_vars,
                   counter_vars, classify_vars>>

NextForest ==
    \/ \E X \in Matrices : Train(X)
    \/ \E X \in Matrices,
          processors \in {[isint |-> FALSE, value |-> 0], [isint |-> TRUE, value |-> 2]} :
          Classify(X, processors)
    \/ \E n \in 1..MaxFeatures : SetModel(Forest(n))

SpecForest == InitForest /\ [][NextForest]_vars

(***************************************************************************)
(* extract count: the runs                                                  *)
(***************************************************************************)
\* Largest number of features the output layer is let grow to
MaxWritten == 3

\* The output layer as open_or_create_similar_layer makes it: the fields of
\* the input layer and no feature.
InitCounter ==
    /\ IdleSampler
    /\ IdleKernel
    /\ IdleNoise
    /\ IdleReader
    /\ IdleWriter
    /\ IdleForest
    /\ IdleClassify
    /\ outlyr \in {NoLayer, [fields |-> <<IdField>>, features |-> <<>>]}
    /\ count_call = NoCountCall
    /\ count_ret = "none"

\* extract count, into the output layer as it is: ClassCounter(featurereader,
\* rasterreader, outlyr, range(first, last + 1)).process()
Count(classrange, features) ==
    /\ Len(outlyr.features) + Len(features) <= MaxWritten
    /\ LET r == ProcessResult(outlyr, classrange[1], classrange[2], features)
       IN  /\ outlyr' = r.layer
           /\ count_ret' = r.kind
    /\ count_call' = [op |-> "count", classrange |-> classrange, features |-> features,
                      found |-> outlyr]
    /\ UNCHANGED <<sampler_vars, kernel_vars, noise_vars, reader_vars, writer_vars,
                   forest_vars, classify_vars>>

NextCounter == \E classrange \in ClassRanges, features \in FeatureLists : Count(classrange, features)

SpecCounter == InitCounter /\ [][NextCounter]_vars

(***************************************************************************)
(* stack_rasters and the classify command: the calls                        *)
(***************************************************************************)
InitClassify ==
    /\ IdleSampler
    /\ IdleKernel
    /\ IdleNoise
    /\ IdleReader
    /\ IdleWriter
    /\ IdleForest
    /\ IdleCounter
    /\ rasterfiles \in RasterLists
    /\ classify_call = NoClassifyCall
    /\ stacked = NoStacked
    /\ output = NoOutput

\* stack_rasters(rasterfiles, bbox), once on the rasters of a behaviour
StackRastersCall(bbox_) ==
    /\ classify_call = NoClassifyCall
    /\ classify_call' = [NoClassifyCall EXCEPT !.op = "stack_rasters", !.bbox = bbox_]
    /\ stacked' = StackRastersResult(rasterfiles, bbox_)
    /\ output' = NoOutput
    /\ UNCHANGED rasterfiles
    /\ UNCHANGED <<sampler_vars, kernel_vars, noise_vars, reader_vars, writer_vars,
                   forest_vars, counter_vars>>

\* classify genericmodel: the rasters are stacked, classified by the model
\* and the classification is written.
GenericModel(model, bbox_) ==
    /\ classify_call = NoClassifyCall
    /\ classify_call' = [op |-> "genericmodel", bbox |-> bbox_, model |-> model]
    /\ LET st == StackRastersResult(rasterfiles, bbox_)
       IN  /\ stacked' = st
           /\ output' = GenericModelOutput(rasterfiles, model, st)
    /\ UNCHANGED rasterfiles
    /\ UNCHANGED <<sampler_vars, kernel_vars, noise_vars, reader_vars, writer_vars,
                   forest_vars, counter_vars>>

NextClassify ==
    \/ \E bbox_ \in StackBboxes(rasterfiles) : StackRastersCall(bbox_)
    \/ \E model \in Models, bbox_ \in StackBboxes(rasterfiles) : GenericModel(model, bbox_)

SpecClassify == InitClassify /\ [][NextClassify]_vars

(***************************************************************************)
(* GridSampler: what the claims speak of                                    *)
(***************************************************************************)
\* The last operation was a make_grid that returned a grid.
GridReturned == call.op = "make_grid" /\ ret.kind \in {"ndarray", "MaskedArray"}

\* The documented preconditions of make_grid: a positive cell size, and points
\* spatially filtered to the bbox (as crop_to_bbox leaves them).
AllInBbox ==
    \A i \in 1..Len(points) :
        /\ bbox.xmin <= points[i].X /\ points[i].X < bbox.xmax
        /\ bbox.ymin < points[i].Y /\ points[i].Y <= bbox.ymax
Filtered == resolution > 0 /\ AllInBbox

\* The points of the sampler that lie in the cell c = (row, col) of the grid,
\* by the cell's extent on the ground.
PointsInCell(c) ==
    {i \in 1..Len(points) :
        /\ bbox.xmin + c[2] * resolution <= points[i].X
        /\ points[i].X < bbox.xmin + (c[2] + 1) * resolution
        /\ bbox.ymax - (c[1] + 1) * resolution < points[i].Y
        /\ points[i].Y <= bbox.ymax - c[1] * resolution}

\* Those of them whose absolute ScanAngleRank is least in the cell.
MinAnglePointsInCell(c) ==
    {i \in PointsInCell(c) :
        \A j \in PointsInCell(c) :
            Abs(points[i].ScanAngleRank) <= Abs(points[j].ScanAngleRank)}

\* Of a set of points of the sampler, the one that came last in the input
\* array (Intensity holds a point's position in the input array).
LastOfInput(S) == CHOOSE i \in S : \A j \in S : points[j].Intensity <= points[i].Intensity

\* The value of the gridded dimension at point i.
GriddedValue(i) == points[i][call.dimension.name]

\* C1: with use_min_scanangle enabled, after make_grid every cell that contains
\* a point holds the value of a point of least absolute ScanAngleRank among the
\* points in that cell.
C1_MinScanAngleWins ==
    (GridReturned /\ use_min_scanangle /\ Filtered) =>
        \A c \in Cells(grid_shape) :
            PointsInCell(c) # {} =>
                \E i \in MinAnglePointsInCell(c) : ret.grid[c] = GriddedValue(i)

\* C1 witness: a cell holds two points, the one of smaller absolute angle first
\* in the input and of opposite sign, and the grid holds that point's value.
C1_Witness ==
    /\ GridReturned /\ use_min_scanangle /\ Filtered
    /\ \E c \in Cells(grid_shape) : \E i, j \in PointsInCell(c) :
          /\ points[i].ScanAngleRank = 1 /\ points[j].ScanAngleRank = -2
          /\ points[i].Intensity < points[j].Intensity
          /\ ret.grid[c] = GriddedValue(i)
          /\ ret.grid[c] # GriddedValue(j)

\* C2: with use_min_scanangle enabled, when several points of a cell share the
\* least absolute angle, make_grid writes the value of the one that comes last
\* in the input order (the pre-sort keeping equal angles in input order).
C2_TieKeepsInputOrder ==
    (GridReturned /\ use_min_scanangle /\ Filtered) =>
        \A c \in Cells(grid_shape) :
            PointsInCell(c) # {} =>
                ret.grid[c] = GriddedValue(LastOfInput(MinAnglePointsInCell(c)))

\* C3: over make_grid calls with no crop_to_bbox and no change of
\* use_min_scanangle between them, every cell takes its value from the same
\* input point in every call, and the same call returns the same grid.
C3_SamePointEveryCall ==
    [][(Filtered /\ selected.valid /\ selected'.valid) =>
            /\ selected'.at = selected.at
            /\ (call' = call /\ GridReturned) => ret' = ret]_vars

\* C4: with use_min_scanangle disabled at a make_grid call, every cell holds the
\* value of the last point in input order that falls in it, whatever make_grid
\* calls came before.
C4_DisabledUsesInputOrder ==
    (GridReturned /\ ~use_min_scanangle /\ Filtered) =>
        \A c \in Cells(grid_shape) :
            PointsInCell(c) # {} =>
                ret.grid[c] = GriddedValue(LastOfInput(PointsInCell(c)))

\* The k-th smallest element of a set of numbers
RECURSIVE KthOf(_, _)
KthOf(S, k) ==
    LET m == CHOOSE x \in S : \A y \in S : x <= y
    IN  IF k = 1 THEN m ELSE KthOf(S \ {m}, k - 1)

\* C5: crop_to_bbox keeps exactly the points with xmin <= X < xmax and
\* ymin < Y <= ymax, in their order, and a second crop_to_bbox changes nothing.
C5_CropToBbox ==
    [][call'.op = "crop_to_bbox" =>
          LET keep == {i \in 1..Len(points) :
                          /\ bbox.xmin <= points[i].X /\ points[i].X < bbox.xmax
                          /\ bbox.ymin < points[i].Y /\ points[i].Y <= bbox.ymax}
          IN  /\ Len(points') = Cardinality(keep)
              /\ \A k \in 1..Len(points') : points'[k] = points[KthOf(keep, k)]
              /\ call.op = "crop_to_bbox" => points' = points]_vars

\* C5 witness: a crop that dropped a point on ymin or on xmax and kept one on
\* xmin and ymax.
C5_Witness ==
    /\ call.op = "crop_to_bbox"
    /\ \E i \in 1..Len(lidar_points) :
          lidar_points[i].Y = bbox.ymin \/ lidar_points[i].X = bbox.xmax
    /\ Len(points) = 1
    /\ points[1].X = bbox.xmin /\ points[1].Y = bbox.ymax

\* C6: constructing a GridSampler with a resolution that is zero or negative
\* raises an error at construction.
C6_NonPositiveResolutionRaises == resolution <= 0 => constructed # "ok"

\* C7: make_grid raises TypeError when dimension is no string, ValueError when
\* it is no field of the points, TypeError when nodata cannot be cast to the
\* field's datatype; no grid is returned then.
C7_MakeGridRaises ==
    call.op = "make_grid" =>
        LET d == call.dimension
            bad_type  == ~d.isstr
            bad_field == d.isstr /\ d.name \notin Fields
            bad_cast  == d.isstr /\ d.name = "Intensity" /\ call.nodata < 0
        IN  /\ bad_type => ret.kind = "TypeError"
            /\ bad_field => ret.kind = "ValueError"
            /\ bad_cast => ret.kind = "TypeError"
            /\ (bad_type \/ bad_field \/ bad_cast) =>
                    ret.grid = NoArray /\ ret.mask = NoArray

\* C7 witness: a make_grid of a field refused for its nodata.
C7_Witness ==
    /\ call.op = "make_grid" /\ ret.kind = "TypeError"
    /\ call.dimension = Str("Intensity") /\ call.nodata = -1
    /\ Filtered /\ Len(points) > 0

\* C8: make_grid returns a grid whose cells without a point hold nodata; with
\* masked=True a cell is masked exactly when its value equals nodata; an empty
\* point set gives an all-nodata grid and no error.
C8_NodataAndMask ==
    /\ (GridReturned /\ Filtered) =>
          \A c \in Cells(grid_shape) : PointsInCell(c) = {} => ret.grid[c] = call.nodata
    /\ (GridReturned /\ call.masked) =>
          /\ ret.kind = "MaskedArray"
          /\ \A c \in Cells(grid_shape) : ret.mask[c] = (ret.grid[c] = call.nodata)
    /\ (GridReturned /\ ~call.masked) => ret.kind = "ndarray"
    /\ (/\ call.op = "make_grid" /\ resolution > 0 /\ points = <<>>
        /\ call.dimension.isstr /\ call.dimension.name \in Fields
        /\ ~(call.dimension.name = "Intensity" /\ call.nodata < 0)) =>
          /\ GridReturned
          /\ \A c \in Cells(grid_shape) : ret.grid[c] = call.nodata

\* C8 witness: a masked grid with an empty cell and a cell whose point's value
\* equals nodata, both masked.
C8_Witness ==
    /\ GridReturned /\ call.masked /\ Filtered
    /\ \E c, e \in Cells(grid_shape) :
          /\ PointsInCell(c) # {} /\ ret.grid[c] = call.nodata /\ ret.mask[c]
          /\ PointsInCell(e) = {} /\ ret.mask[e]

(***************************************************************************)
(* KernelFeatureExtraction: what the claims speak of                        *)
(***************************************************************************)
ValidNeighborhood(n) == n \in {1, 3, 5, 7, 9, 11, 13}

\* C9: for every valid neighborhood N and input of shape (rows, cols) with
\* rows, cols >= N, the derived features have shape (rows-(N-1), cols-(N-1))
\* in crop mode and (rows, cols) in reflect mode.
C9_FeatureShape ==
    LET a == extractor.array
        n == extractor.neighborhood
    IN  (/\ ValidNeighborhood(n) /\ a.rows >= n /\ a.cols >= n
         /\ derived.kind # "none") =>
            /\ extractor.nodata.declared => derived.kind = "features"
            /\ \A i \in 1..Len(derived.features) :
                  IF extractor.crop_mode = "crop"
                  THEN /\ derived.features[i].rows = a.rows - (n - 1)
                       /\ derived.features[i].cols = a.cols - (n - 1)
                  ELSE /\ derived.features[i].rows = a.rows
                       /\ derived.features[i].cols = a.cols

\* C9 witness: three features of a 13 x 13 raster with N = 13 in crop mode,
\* of a single cell each.
C9_Witness ==
    /\ derived.kind = "features" /\ Len(derived.features) = 3
    /\ extractor.crop_mode = "crop" /\ extractor.neighborhood = MAX_ALLOWED_NEIGHBORHOOD
    /\ extractor.array.rows = MAX_ALLOWED_NEIGHBORHOOD
    /\ extractor.array.cols = MAX_ALLOWED_NEIGHBORHOOD
    /\ derived.features[1].rows = 1
    /\ derived.features[1].cols = 1

\* C10: the computation is rejected for every neighborhood that is even,
\* greater than 13, or not positive; only odd N from 1 to 13 give features.
C10_NeighborhoodRejected ==
    LET n == extractor.neighborhood
    IN  derived.kind # "none" =>
            /\ (n % 2 = 0 \/ n > 13 \/ n <= 0) =>
                    derived.kind # "features" /\ derived.features = <<>>
            /\ derived.kind = "features" => (n % 2 = 1 /\ 1 <= n /\ n <= 13)

\* C10 witness: an odd negative neighborhood, which both asserts let through,
\* rejected in crop mode.
C10_Witness ==
    /\ extractor.neighborhood = -3 /\ extractor.crop_mode = "crop"
    /\ derived.kind = "ValueError"

\* C11: a neighborhood that is even, greater than 13 or not positive is
\* rejected when the KernelFeatureExtraction is constructed: no object is made
\* of it, and the raster is not read.
C11_RejectedAtConstruction ==
    ~ValidNeighborhood(extractor.neighborhood) =>
        /\ extractor.constructed # "ok"
        /\ extractor.array.at = <<>>

\* The offset of a window's centre cell in the unpadded input from the output
\* cell: (N - 1) / 2 in crop mode, none in reflect mode.
CentreOffset ==
    IF extractor.crop_mode = "crop" THEN (extractor.neighborhood - 1) \div 2 ELSE 0

\* The centre cell, in the unpadded input, of the window of output cell w.
CentreCell(w) == extractor.array.at[<<w[1] + CentreOffset, w[2] + CentreOffset>>]

\* C12: in crop and in reflect mode and for every requested feature, an output
\* cell is masked if and only if the centre cell of its window, the
\* corresponding cell of the unpadded input (offset by (N-1)/2 in crop mode),
\* equals nodata.
C12_MaskedIffCentreNodata ==
    derived.kind = "features" =>
        \A i \in 1..Len(derived.features) :
            \A w \in DOMAIN derived.features[i].at :
                derived.features[i].at[w].masked <=> (CentreCell(w) = extractor.nodata.value)

\* Index i of an axis of length n mirrored into 0..n-1 without repeating the
\* edge value: -1 reads 1 and n reads n-2 (an axis of one cell reads that cell).
RECURSIVE MirrorIndex(_, _)
MirrorIndex(i, n) ==
    IF n = 1 THEN 0
    ELSE IF i < 0 THEN MirrorIndex(-i, n)
    ELSE IF i > n - 1 THEN MirrorIndex(2 * (n - 1) - i, n)
    ELSE i

\* The k-th entry, k in 0..N*N-1, of the N x N window centred on the input
\* cell of output cell w.
WindowEntry(w, k) ==
    LET a == extractor.array
        n == extractor.neighborhood
        h == (n - 1) \div 2
    IN  a.at[<<MirrorIndex(w[1] + CentreOffset + (k \div n) - h, a.rows),
               MirrorIndex(w[2] + CentreOffset + (k % n) - h, a.cols)>>]

\* Count and sum of the entries of that window that are not nodata.
WindowCount(w) ==
    LET n == extractor.neighborhood
    IN  SumRange([k \in 0..(n * n - 1) |->
                    IF WindowEntry(w, k) # extractor.nodata.value THEN 1 ELSE 0],
                 0, n * n - 1)
WindowSum(w) ==
    LET n == extractor.neighborhood
    IN  SumRange([k \in 0..(n * n - 1) |->
                    IF WindowEntry(w, k) # extractor.nodata.value
                    THEN WindowEntry(w, k) ELSE 0],
                 0, n * n - 1)

\* The sum over those entries x of (count * x - sum)^2, which is count^3 times
\* their population variance.
WindowSquares(w) ==
    LET n   == extractor.neighborhood
        cnt == WindowCount(w)
        sum == WindowSum(w)
        Dev(c, s, x) == (c * x - s) * (c * x - s)
    IN  SumRange([k \in 0..(n * n - 1) |->
                    IF WindowEntry(w, k) # extractor.nodata.value
                    THEN Dev(cnt, sum, WindowEntry(w, k)) ELSE 0],
                 0, n * n - 1)

\* C13: for every unmasked output cell in either mode, mean is the sum divided
\* by the count of the non-nodata entries of the N x N window centred on the
\* corresponding input cell (edges mirrored in reflect mode), var is the
\* population variance of those entries, and diffmean is that input cell's
\* value minus this mean.
C13_WindowStatistics ==
    derived.kind = "features" =>
        \A i \in 1..Len(derived.features) :
            \A w \in DOMAIN derived.features[i].at :
                LET f    == derived.features[i]
                    cell == f.at[w]
                    cnt  == WindowCount(w)
                IN  ~cell.masked =>
                        /\ cnt > 0
                        /\ f.name = "mean" =>
                              cell.den = cnt /\ cell.num = WindowSum(w)
                        /\ f.name = "var" =>
                              cell.den = cnt * cnt * cnt /\ cell.num = WindowSquares(w)
                        /\ f.name = "diffmean" =>
                              cell.den = cnt /\ cell.num = cnt * CentreCell(w) - WindowSum(w)

\* C14: the origin written for each derived-feature raster is the world
\* coordinate of the upper-left corner of the input array read (the pixel
\* window selected for the bbox): as it is in reflect mode, shifted inward by
\* (N-1)/2 * resolution in x and in -y in crop mode.
C14_OriginAtWindowCorner ==
    \A i \in 1..Len(written) :
        LET gt       == extractor.geotransform
            corner_x == gt.originX + extractor.window.col * gt.pixel_width
            corner_y == gt.originY + extractor.window.row * gt.pixel_height
            inward   == CentreOffset * gt.pixel_width
        IN  written[i].origin = <<corner_x + inward, corner_y - inward>>

\* C29: when the raster declares no nodata value and the neighborhood fits,
\* every requested feature (mean, var, diffmean) is yielded, computed over all
\* N * N window entries, with no output cell masked, in crop and in reflect mode.
C29_FeaturesWithoutNodata ==
    (/\ derived.kind # "none" /\ ~extractor.nodata.declared
     /\ ValidNeighborhood(extractor.neighborhood)
     /\ extractor.array.rows >= extractor.neighborhood
     /\ extractor.array.cols >= extractor.neighborhood) =>
        /\ derived.kind = "features"
        /\ Len(derived.features) = Len(extractor.outputfeatures)
        /\ \A i \in 1..Len(derived.features) :
              /\ derived.features[i].name = extractor.outputfeatures[i]
              /\ \A w \in DOMAIN derived.features[i].at :
                    /\ ~derived.features[i].at[w].masked
                    /\ derived.features[i].name = "mean" =>
                          derived.features[i].at[w].den =
                              extractor.neighborhood * extractor.neighborhood

(***************************************************************************)
(* RasterReader: claims                                                     *)
(***************************************************************************)
\* The window or the bbox requested reaches outside the raster's coverage: a
\* negative offset or size, or offset plus size beyond the width or height;
\* a bbox that reaches beyond the raster's bbox.
RequestOutside ==
    LET w == read_call.window
        b == read_call.bbox
        whole == RasterBbox(reader.geotransform, reader.height, reader.width)
    IN  \/ /\ w.given
           /\ \/ w.col < 0 \/ w.row < 0 \/ w.cols < 0 \/ w.rows < 0
              \/ w.col + w.cols > reader.width \/ w.row + w.rows > reader.height
        \/ /\ b.given
           /\ \/ b.xmin < whole.xmin \/ b.xmax > whole.xmax
              \/ b.ymin < whole.ymin \/ b.ymax > whole.ymax

\* The shape (numrows, numcolumns) requested: the window's, the pixel window
\* of the bbox, or the whole raster.
RequestedWindow ==
    IF read_call.window.given
    THEN [col |-> read_call.window.col, row |-> read_call.window.row,
          cols |-> read_call.window.cols, rows |-> read_call.window.rows]
    ELSE IF read_call.bbox.given THEN BboxToPixelWindow(reader.geotransform, read_call.bbox)
    ELSE [col |-> 0, row |-> 0, cols |-> reader.width, rows |-> reader.height]

\* C25: read_raster raises ValueError whenever the window or bbox requested
\* reaches outside the raster's coverage, and when both are given; a request
\* that succeeds returns an array of shape (numrows, numcolumns) that holds
\* exactly the cells of the requested extent.
C25_ReadRasterChecksExtent ==
    read_call.op = "read_raster" =>
        /\ (read_call.window.given /\ read_call.bbox.given) => read_ret.kind = "ValueError"
        /\ RequestOutside => read_ret.kind = "ValueError"
        /\ read_ret.kind # "ValueError" =>
              /\ read_ret.array.rows = RequestedWindow.rows
              /\ read_ret.array.cols = RequestedWindow.cols
              /\ \A c \in DOMAIN read_ret.array.at :
                    read_ret.array.at[c] =
                        reader.band.at[<<c[1] + RequestedWindow.row, c[2] + RequestedWindow.col>>]

(***************************************************************************)
(* write_to_file: claims                                                    *)
(***************************************************************************)
\* C26: for every masked integer or floating-point array (unsigned dtypes
\* included) that leaves some value of its dtype unused, write_to_file without
\* an explicit nodata succeeds, and the nodata value find_nodata_value gave it
\* is not among the array's unmasked values and is representable in its dtype.
C26_NodataFound ==
    (out_file.kind # "none" /\ ~out_file.given.declared /\ IsMasked(out_array)) =>
        /\ out_file.kind = "ok"
        /\ out_file.nodata.declared
        /\ \A c \in CellsOf(out_array) :
              ~out_array.mask[c] => out_array.data[c] # out_file.nodata.value
        /\ Tinfo(out_array.dtype).min <= out_file.nodata.value
        /\ out_file.nodata.value <= Tinfo(out_array.dtype).max

(***************************************************************************)
(* RandomForest: claims                                                     *)
(***************************************************************************)
\* The matrix given to classify and the model held do not both have
\* num_features features.
FeatureMismatch ==
    \/ rf_call.X.ndim = 2 /\ rf_call.X.cols # classifier.num_features
    \/ classifier.model.kind # "None" /\ classifier.model.n_features_ # classifier.num_features

\* C24: when the number of columns of X differs from num_features, or the
\* model's own feature count differs from num_features, classify fails and
\* the model's prediction is not invoked.
C24_NoPredictionOnMismatch ==
    (rf_call.op = "classify" /\ FeatureMismatch) =>
        /\ ~rf_ret.predicted
        /\ rf_ret.kind \in {"AssertionError", "AttributeError"}

\* C24 witness: a classify of a matrix of num_features columns, failed
\* because the model held, put there after construction, has another count.
C24_Witness ==
    /\ rf_call.op = "classify" /\ rf_call.X.ndim = 2
    /\ rf_call.X.cols = classifier.num_features
    /\ classifier.model.kind = "RandomForestClassifier"
    /\ classifier.model.n_features_ # classifier.num_features
    /\ rf_ret.kind = "AttributeError" /\ ~rf_ret.predicted

(***************************************************************************)
(* ClassCounter: claims                                                     *)
(***************************************************************************)
\* The features the last run wrote are those of its polygons, in order, after
\* the features it found: each with the count of every reported class and a
\* total_count of all the cells inside its polygon.
CountsWritten ==
    LET first == count_call.classrange[1]
        last == count_call.classrange[2]
        before == Len(count_call.found.features)
    IN  /\ Len(outlyr.features) = before + Len(count_call.features)
        /\ \A i \in 1..Len(count_call.features) :
              LET f == outlyr.features[before + i]
                  inside == count_call.features[i]
              IN  /\ \A x \in first..last :
                        f[GetFieldIndex(outlyr.fields, ClassField(x)) + 1] = CountOf(inside, x)
                  /\ f[GetFieldIndex(outlyr.fields, TotalField) + 1] = Len(inside)

\* C30: a run into an output layer that already has the class_n and
\* total_count fields succeeds, and every feature it writes has its
\* per-class counts and a total_count of all the cells inside the polygon.
C30_CountIntoExistingLayer ==
    (/\ count_call.op = "count"
     /\ GetFieldIndex(count_call.found.fields, TotalField) >= 0
     /\ \A x \in count_call.classrange[1]..count_call.classrange[2] :
           GetFieldIndex(count_call.found.fields, ClassField(x)) >= 0) =>
        /\ count_ret = "ok"
        /\ CountsWritten

(***************************************************************************)
(* stack_rasters and the classify command: claims                           *)
(***************************************************************************)
\* The bbox the last call read the rasters in
StackBbox ==
    IF classify_call.bbox.given THEN classify_call.bbox
    ELSE RasterBbox(rasterfiles[1].geotransform, rasterfiles[1].height, rasterfiles[1].width)

\* The window geotransform of raster i in the last call
WindowGeotransformOf(i) ==
    WindowGeotransform(rasterfiles[i].geotransform,
                       BboxToPixelWindow(rasterfiles[i].geotransform, StackBbox))

\* The rasters of the last call have the same origin, resolution and shape
Identical ==
    \A i \in 1..Len(rasterfiles) :
        /\ rasterfiles[i].geotransform = rasterfiles[1].geotransform
        /\ rasterfiles[i].height = rasterfiles[1].height
        /\ rasterfiles[i].width = rasterfiles[1].width

\* C21: stack_rasters fails with the alignment error whenever the window
\* geotransforms of two rasters are not equal, succeeds when origin,
\* resolution and shape are identical, and never returns a stack of
\* misaligned rasters.
C21_MisalignedNeverStacked ==
    classify_call.op = "stack_rasters" =>
        /\ (\E i \in 1..Len(rasterfiles) : WindowGeotransformOf(i) # WindowGeotransformOf(1))
              => stacked.kind = "AssertionError"
        /\ Identical => stacked.kind = "ok"
        /\ stacked.kind = "ok" =>
              \A i \in 1..Len(rasterfiles) : WindowGeotransformOf(i) = WindowGeotransformOf(1)

\* Band i of the last call as RasterReader gives it masked: the cells of the
\* window of the bbox and their nodata mask (none when no nodata is declared).
BandRead(i) ==
    LET w == BboxToPixelWindow(rasterfiles[i].geotransform, StackBbox)
    IN  ReadRasterResult(rasterfiles[i],
                         [given |-> TRUE, col |-> w.col, row |-> w.row,
                          cols |-> w.cols, rows |-> w.rows], NoneBbox, TRUE)

\* Cell k, counted in row-major order from 1, is nodata in none of the bands
ValidCell(k) ==
    \A i \in 1..Len(rasterfiles) : ~BandRead(i).mask[CellAt(k - 1, stacked.shape[2])]

C23_LabelsAtValidCells ==
    (classify_call.op = "genericmodel" /\ output.kind = "ok") =>
        /\ output.shape = stacked.shape
        /\ output.nodata = 0
        /\ \A c \in DOMAIN output.at :
              LET k == c[1] * stacked.shape[2] + c[2] + 1
              IN  output.at[c] =
                      IF stacked.mask[k]
                      THEN Predict(classify_call.model,
                                   stacked.X[Cardinality({m \in 1..k : stacked.mask[m]})])
                      ELSE 0

(***************************************************************************)
(* Noise tools: claims                                                      *)
(***************************************************************************)
\* The array a call returned has the shape of a.
SameShape == noise_ret.array.rows = raster.rows /\ noise_ret.array.cols = raster.cols

\* C15: for a uint8 masked class raster with at least one unmasked cell,
\* denoise returns a plain array of the same shape whose every cell holds a
\* class value that occurs among the input's unmasked cells (so neither a
\* nodata nor the stand-in for it).
C15_DenoiseGivesInputClasses ==
    (/\ noise_call.op = "denoise"
     /\ raster.type = "MaskedArray"
     /\ raster.dtype = "uint8"
     /\ ClassValues(raster) # {})
    => /\ noise_ret.kind = "ndarray"
       /\ noise_ret.array.type = "ndarray"
       /\ SameShape
       /\ \A c \in CellsOf(raster) : noise_ret.array.data[c] \in ClassValues(raster)

\* The raster is the same after one majority vote over the 3 x 3 neighbourhood.
StableUnderVote(a) == Vote(a.data, CellsOf(a), 1, "ones") = a.data

\* C16: denoise of a dense uint8 raster, one with no masked cell, returns a
\* dense raster of the same shape, and one equal to its input when the input
\* is stable under 3 x 3 majority voting.
C16_DenoiseOfDense ==
    (/\ noise_call.op = "denoise"
     /\ raster.dtype = "uint8"
     /\ ~IsMasked(raster))
    => /\ noise_ret.kind = "ndarray"
       /\ SameShape
       /\ StableUnderVote(raster) => noise_ret.array.data = raster.data

\* The number of cells under the structure at a cell that hold a class value,
\* and the number that are masked, in the array the vote was called with.
ClassCount(c, v) ==
    Cardinality({n \in Connected(CellsOf(raster), c, noise_call.structure) :
                    ~raster.mask[n] /\ raster.data[n] = v})
MaskedCount(c) ==
    Cardinality({n \in Connected(CellsOf(raster), c, noise_call.structure) : raster.mask[n]})

\* C17: one iteration of majority_vote on a masked uint8 array gives a
\* MaskedArray of the same dtype and shape; a cell of it is masked exactly
\* where the masked cells outnumber every class under the structure, and
\* otherwise holds a class that no class and not the masked cells outnumber.
C17_MajorityOfNeighbourhood ==
    (/\ noise_call.op = "majority_vote"
     /\ noise_call.iterations = 1
     /\ raster.dtype = "uint8"
     /\ IsMasked(raster))
    => /\ noise_ret.kind = "MaskedArray"
       /\ noise_ret.array.dtype = raster.dtype
       /\ SameShape
       /\ \A c \in CellsOf(raster) :
             /\ noise_ret.array.mask[c] <=>
                    \A v \in ClassValues(raster) : ClassCount(c, v) < MaskedCount(c)
             /\ ~noise_ret.array.mask[c] =>
                    /\ noise_ret.array.data[c] \in ClassValues(raster)
                    /\ MaskedCount(c) <= ClassCount(c, noise_ret.array.data[c])
                    /\ \A v \in ClassValues(raster) :
                          ClassCount(c, v) <= ClassCount(c, noise_ret.array.data[c])

\* The unmasked cells of the array the call was made with
UnmaskedCells == {n \in CellsOf(raster) : ~raster.mask[n]}

\* A cell of the returned array holds what a closest unmasked cell holds.
TakesClosest(c) ==
    \E n \in UnmaskedCells :
        /\ \A m \in UnmaskedCells : Dist2(c, n) <= Dist2(c, m)
        /\ noise_ret.array.data[c] = raster.data[n]

C19_NoSmallClusterLeft ==
    (noise_call.op = "sieve" /\ noise_ret.kind = "None")
    => \A v \in ClassValues(raster) :
          \A c \in ClassBin(raster, v) :
             Cardinality(Cluster(ClassBin(raster, v), {c}, noise_call.structure))
                >= noise_call.min_cluster_size

\* C20: sieve_mask(a, c, k) is True exactly at the cells whose value is c and
\* whose connected cluster of value c has fewer than k cells; a cell holding
\* another value is never marked.
C20_MarksSmallClustersOnly ==
    noise_call.op = "sieve_mask"
    => \A c \in CellsOf(raster) :
          noise_ret.array.data[c] <=>
             /\ c \in ClassBin(raster, noise_call.class_number)
             /\ Cardinality(Cluster(ClassBin(raster, noise_call.class_number), {c},
                                    noise_call.structure))
                   < noise_call.min_cluster_size

\* C27: for a masked uint8 array, the stand-in majority_vote takes for nodata
\* is one uint8 value, the same when the masked cells are filled and when the
\* result is remasked, and no class among the unmasked cells; so the result is
\* masked exactly at the cells that hold no class of the input.
C27_StandInIsNoClass ==
    (/\ noise_call.op = "majority_vote"
     /\ raster.dtype = "uint8"
     /\ IsMasked(raster))
    => /\ \A nodata \in Nodatas(raster) :
             /\ nodata.filled = nodata.masked_value
             /\ nodata.filled \in 0..255
             /\ nodata.filled \notin ClassValues(raster)
       /\ \A c \in CellsOf(raster) :
             noise_ret.array.mask[c] <=> noise_ret.array.data[c] \notin ClassValues(raster)

(***************************************************************************)
(* GridSampler: the cell index                                              *)
(***************************************************************************)
\* C28: after a make_grid of a sampler with a positive resolution whose points
\* all lie in the bbox (xmin <= X < xmax, ymin < Y <= ymax), the cell index of
\* every point is (floor((ymax - Y) / resolution), floor((X - xmin) /
\* resolution)) and lies within the grid shape, and make_grid raised no
\* IndexError.
C28_CellIndexInGrid ==
    (call.op = "make_grid" /\ Filtered) =>
        /\ ret.kind # "IndexError"
        /\ \A i \in 1..Len(points) :
              /\ cell_indexes.row[i] = (bbox.ymax - points[i].Y) \div resolution
              /\ cell_indexes.col[i] = (points[i].X - bbox.xmin) \div resolution
              /\ 0 <= cell_indexes.row[i] /\ cell_indexes.row[i] < grid_shape.rows
              /\ 0 <= cell_indexes.col[i] /\ cell_indexes.col[i] < grid_shape.cols


====
